---- MODULE Spec2Model ----
(***************************************************************************)
(* State-machine model of the stk authentication core:                     *)
(*   - the OAuth reconciliation engine   (stk/public/views.py)             *)
(*   - the session registry and its sweep (stk/user/models.py,             *)
(*     stk/user/views.py, stk/tasks/__init__.py)                           *)
(*   - the websocket broadcast hub        (stk/websocket.py)               *)
(*   - the sliding-window rate limiter    (stk/utils/ratelimit.py)         *)
(* Code between two suspension points of the event loop is one step.      *)
(* Storage is modelled as the committed tables; a request holds its        *)
(* pending rows in its own record until its commit step, where the         *)
(* database's constraints decide whether the transaction persists.         *)
(***************************************************************************)
EXTENDS Integers, FiniteSets, Sequences, TLC

\* ------------------------------------------------------------------ bounds
MaxUsers == 3
MaxSessionRows == 3
MaxTicks == 3
MaxBroadcasts == 1
MaxChecks == 12
MaxRateTicks == 3
MaxBacklog == 3
MaxStates == 2

\* ------------------------------------------------------------- value sets
Null == "null"
Providers == {"google", "github"}
ProviderNames == Providers \cup {"other"}
Emails == {"a@x.com", "b@x.com"}
ProfileEmails == Emails \cup {Null, ""}
\* Provider-assigned ids: one account per provider keeps the tables small.
ProfileIds == {"abc"}
Clients == {"c1", "c2"}

VARIABLES
    users,      \* committed rows of table "user": [id, email, password_set, origin]
    oauths,     \* committed rows of table "oauth": [provider, provider_user_id, user_id]
    current,    \* per browser session: id of the logged-in User, 0 when anonymous
    req,        \* per browser session: position and locals of its OAuth callback in flight
    resolved,   \* history: [provider, provider_user_id, uid] of every login a reconcile call performed
    sessions,   \* committed rows of table "user_sessions"
    nextSid,    \* next autoincrement id of table "user_sessions"
    now,        \* the clock, in seconds
    ticks,      \* number of clock steps taken
    sreq,       \* per handler slot: position and locals of a user_authenticated_handler run
    disableMulti, \* config DISABLE_MULTIPLE_SESSIONS
    sweptAt,    \* history: clock value of the last sweep, -1 when none ran since the last commit of a created or refreshed session
    clients,    \* _clients: identity -> set of the handles (queues) registered under it
    queue,      \* per connection: content of its handle's asyncio.Queue
    enq,        \* history: per connection, every message ever put on its queue
    conn,       \* per connection: position of ws_endpoint and of its two duties, frames sent
    bc,         \* per broadcaster: position and locals of a broadcast call
    running,    \* the broadcast that holds the event loop between two suspensions, or Null
    nextMsg,    \* number of the next broadcast message
    hubErr,     \* history: exceptions raised by registry operations
    calls,      \* history: per broadcast message, the identity argument of its call
    hits,       \* _hits: per key, the timestamps of the checks let through and not yet evicted
    allowed,    \* history: per key, the timestamp of every check that was let through
    mono,       \* time.monotonic(), in ticks
    rticks,     \* number of steps mono has taken
    nchecks,    \* number of rate-limit checks started
    rl,         \* per caller: position and locals of its rate-limit check
    answer,     \* per caller: what its last rate-limit check handed back
    handled,    \* history: the handler run of the latest request, with the answer of the check before it
    tasks,      \* per detached unit: position, outcome and storage session of its asyncio task
    tlog,       \* records written by logger.error of stk.tasks
    sched,      \* the caller that schedules detached units
    hook,       \* position of the while_serving hook _lifespan
    hlog,       \* messages written by app.logger in _lifespan
    config,     \* the application's configuration
    work,       \* per request: position of its unit of work, its g.db_session and transaction
    stored,     \* committed rows of the tables a unit of work writes: <<request, row>>
    oauth_state, \* per browser session: session["oauth_state"], NoState when the key is absent
    issued      \* number of state values token_urlsafe has produced

oauthVars == <<users, oauths, current, req, resolved>>
sessVars == <<sessions, nextSid, now, ticks, sreq, disableMulti, sweptAt>>
hubVars == <<clients, queue, enq, conn, bc, running, nextMsg, hubErr, calls>>
rateVars == <<hits, allowed, mono, rticks, nchecks, rl, answer, handled>>
taskVars == <<tasks, tlog, sched, hook, hlog>>
webVars == <<work, stored, oauth_state, issued>>
notOAuthVars == <<sessVars, hubVars, rateVars, taskVars, config, webVars>>
notSessVars == <<oauthVars, hubVars, rateVars, taskVars, config, webVars>>
notHubVars == <<oauthVars, sessVars, rateVars, taskVars, config, webVars>>
notRateVars == <<oauthVars, sessVars, hubVars, taskVars, config, webVars>>
notWebVars == <<oauthVars, sessVars, hubVars, rateVars, taskVars, config>>
notTaskVars == <<oauthVars, sessVars, hubVars, rateVars, config, webVars>>
vars == <<oauthVars, sessVars, hubVars, rateVars, taskVars, config, webVars>>

\* ------------------------------------------------------------ the tables
UserIds(us) == {u.id : u \in us}

\* User.id is an autoincrement primary key and no User row is ever deleted.
NextUserId(us) == Cardinality(us) + 1

\* models.py: User.email unique NOT NULL (the username of an OAuth User is its
\* email, so the two unique columns collide together).
UserInsertOK(us, u) ==
    /\ u.email # Null
    /\ \A v \in us : v.email # u.email

\* uq_oauth_provider_user ignored: what a schema without the constraint accepts.
OAuthInsertOKNoUnique(us, os, o) ==
    /\ o.provider_user_id # Null
    /\ o.user_id \in UserIds(us)

\* models.py: OAuth.provider_user_id NOT NULL, user_id NOT NULL FK,
\* UniqueConstraint(provider, provider_user_id).
OAuthInsertOK(us, os, o) ==
    /\ o.provider_user_id # Null
    /\ o.user_id \in UserIds(us)
    /\ \A p \in os : ~(p.provider = o.provider /\ p.provider_user_id = o.provider_user_id)

\* create_oauth_user: the new User takes the provider email and an unusable
\* random password (password_set=False). origin is history: the provider
\* account whose reconcile call made the row.
create_oauth_user(us, email, provider, puid) ==
    [id |-> NextUserId(us), email |-> email, password_set |-> FALSE,
     origin |-> <<provider, puid>>]

NewOAuth(provider, puid, uid) ==
    [provider |-> provider, provider_user_id |-> puid, user_id |-> uid]

\* A commit that persists the User even when the OAuth insert is refused.
CommitNewPiecewise(us, os, u, o) ==
    IF UserInsertOK(us, u)
    THEN IF OAuthInsertOK(us \cup {u}, os, o)
         THEN [ok |-> TRUE, users |-> us \cup {u}, oauths |-> os \cup {o}]
         ELSE [ok |-> FALSE, users |-> us \cup {u}, oauths |-> os]
    ELSE [ok |-> FALSE, users |-> us, oauths |-> os]

\* session.add_all([new_user, oauth_account]); commit(): one transaction, both
\* rows or neither.
CommitNew(us, os, u, o) ==
    IF UserInsertOK(us, u) /\ OAuthInsertOK(us \cup {u}, os, o)
    THEN [ok |-> TRUE, users |-> us \cup {u}, oauths |-> os \cup {o}]
    ELSE [ok |-> FALSE, users |-> us, oauths |-> os]

\* A link whose insert is never refused.
CommitLinkUnchecked(us, os, o) == [ok |-> TRUE, oauths |-> os \cup {o}]

\* session.add(oauth_account); commit() of the link path.
CommitLink(us, os, o) ==
    IF OAuthInsertOK(us, os, o)
    THEN [ok |-> TRUE, oauths |-> os \cup {o}]
    ELSE [ok |-> FALSE, oauths |-> os]

\* request.args.get("state") and session.get("oauth_state") when there is no
\* such parameter or key: None. The values of token_urlsafe are 1, 2, ...
NoState == 0

\* ------------------------------------------------------- request records
\* A browser session has at most one callback in flight; the session it
\* carries is the browser session itself.
IdleReq ==
    [pc |-> "idle", provider |-> "google", state |-> NoState, token |-> FALSE, email |-> Null,
     puid |-> Null,
     target |-> 0, oauthFound |-> FALSE, path |-> "none", outcome |-> "none",
     netfail |-> FALSE, loggedOut |-> FALSE, loggedIn |-> FALSE,
     lookups |-> 0, writes |-> 0]

\* google: user_info.get("sub"); github: str(user_info.get("id")), and
\* str(None) is the four-letter string "None".
ProviderUserId(provider, rawid) ==
    IF provider = "github"
    THEN (IF rawid = Null THEN "None" ELSE rawid)
    ELSE rawid

\* Guards that forget to test the email.
InputFailureNoEmailTest(provider, token, email) ==
    IF ~token THEN "no_token"
    ELSE IF provider \notin Providers THEN "unknown_provider"
    ELSE "none"

\* The three guards of handle_oauth_callback, in the order the code tests them.
InputFailure(provider, token, email) ==
    IF ~token THEN "no_token"
    ELSE IF provider \notin Providers THEN "unknown_provider"
    ELSE IF email \in {Null, ""} THEN "no_email"
    ELSE "none"

\* A request that ends (redirect returned, or exception caught by the
\* callback): its locals are gone, what it did stays as history.
Finished(rq, outcome) ==
    [IdleReq EXCEPT !.pc = "done", !.outcome = outcome, !.path = rq.path,
                    !.netfail = rq.netfail, !.loggedOut = rq.loggedOut,
                    !.loggedIn = rq.loggedIn, !.lookups = rq.lookups,
                    !.writes = rq.writes]

Free(c) == req[c].pc \in {"idle", "done"}

\* handle_oauth_callback, lines 72-98: runs without suspension up to the first
\* storage query, or to the redirect when a guard fails.
Enter(rq, provider, token, rawid, email) ==
    IF InputFailure(provider, token, email) = "none"
    THEN [rq EXCEPT !.pc = "lookup", !.provider = provider, !.token = token, !.email = email,
                    !.puid = ProviderUserId(provider, rawid)]
    ELSE Finished(rq, InputFailure(provider, token, email))

\* ------------------------------------------------------ OAuth callbacks
\* google_callback / github_callback entered by browser session c.
CallbackStart(c, provider) ==
    /\ Free(c)
    /\ req' = [req EXCEPT ![c] = [IdleReq EXCEPT !.pc = "exchange", !.provider = provider]]
    /\ UNCHANGED <<users, oauths, current, resolved, notOAuthVars>>

GoogleCallback(c) == CallbackStart(c, "google")

GithubCallback(c) == CallbackStart(c, "github")

\* google_login / github_login: an authenticated caller is sent to the
\* dashboard; otherwise state = token_urlsafe(32) is stored in the session
\* and the browser is sent to the provider.
LoginInitiation(c, provider) ==
    /\ Free(c)
    /\ current[c] = 0
    /\ issued < MaxStates
    /\ issued' = issued + 1
    /\ oauth_state' = [oauth_state EXCEPT ![c] = issued + 1]
    /\ UNCHANGED <<notWebVars, work, stored>>

\* request.args.get("state") != session.get("oauth_state"): both are None
\* when the parameter and the key are absent.
StateMismatch(state, storedState) == state # storedState

\* google_callback / github_callback, lines 194-204 and 277-287, entered by
\* browser session c with the query parameters state and code (NoState: no
\* such parameter; code: whether there is one).
CallbackRequest(c, provider, state, code) ==
    /\ Free(c)
    /\ LET rq == [IdleReq EXCEPT !.provider = provider, !.state = state]
       IN  IF StateMismatch(state, oauth_state[c])
           THEN /\ req' = [req EXCEPT ![c] = Finished(rq, "invalid_state")]
                /\ UNCHANGED oauth_state
           ELSE /\ oauth_state' = [oauth_state EXCEPT ![c] = NoState]
                /\ req' = [req EXCEPT ![c] =
                             IF code THEN [rq EXCEPT !.pc = "exchange"]
                             ELSE Finished(rq, "no_code")]
    /\ UNCHANGED <<users, oauths, current, resolved, work, stored, issued>>
    /\ UNCHANGED <<sessVars, hubVars, rateVars, taskVars, config>>

\* A provider failure that is swallowed: the callback goes on with a profile.
FailedExchangeContinues(rq) ==
    Enter(rq, rq.provider, TRUE, "abc", "a@x.com")

\* except Exception: log, flash, redirect to the login page.
FailedExchange(rq) == Finished(rq, "provider_error")

\* Discovery, token exchange or profile fetch raises.
ProviderFails(c) ==
    /\ req[c].pc = "exchange"
    /\ req' = [req EXCEPT ![c] = FailedExchange([req[c] EXCEPT !.netfail = TRUE])]
    /\ UNCHANGED <<users, oauths, current, resolved, notOAuthVars>>

\* The provider answers with a token and the profile (rawid, email) and the
\* callback calls handle_oauth_callback.
ProviderProfile(c, rawid, email) ==
    /\ req[c].pc = "exchange"
    /\ req' = [req EXCEPT ![c] = Enter(req[c], req[c].provider, TRUE, rawid, email)]
    /\ UNCHANGED <<users, oauths, current, resolved, notOAuthVars>>

\* The provider answers with a token and a profile (id and email may be
\* missing).
ProviderAnswers(c) ==
    \E rawid \in ProfileIds, email \in ProfileEmails : ProviderProfile(c, rawid, email)

\* handle_oauth_callback called with arbitrary arguments.
HandleOAuthCallback(c) ==
    /\ Free(c)
    /\ \E provider \in ProviderNames, token \in BOOLEAN,
          rawid \in ProfileIds, email \in ProfileEmails :
         req' = [req EXCEPT ![c] = Enter(IdleReq, provider, token, rawid, email)]
    /\ UNCHANGED <<users, oauths, current, resolved, notOAuthVars>>

\* select(OAuth).filter_by(provider=..., provider_user_id=...)
FindOAuth(os, provider, puid) ==
    {o \in os : o.provider = provider /\ o.provider_user_id = puid}

\* A comparison that never asks for the logout.
NeedsLogoutNever(ident, owner) == FALSE

\* current_user.is_authenticated and current_user.id != oauth_account.user.id
NeedsLogout(ident, owner) == ident # 0 /\ ident # owner

\* handle_oauth_callback, lines 100-108: look the binding up; scalar_one_or_none
\* raises when several rows match.
LookupOAuth(c) ==
    /\ req[c].pc = "lookup"
    /\ LET rq == [req[c] EXCEPT !.lookups = @ + 1]
           rows == FindOAuth(oauths, rq.provider, rq.puid)
       IN  IF Cardinality(rows) > 1
           THEN req' = [req EXCEPT ![c] = Finished(rq, "error")]
           ELSE IF rows # {} /\ (CHOOSE o \in rows : TRUE).user_id \in UserIds(users)
           THEN LET owner == (CHOOSE o \in rows : TRUE).user_id
                IN  req' = [req EXCEPT ![c] =
                        [rq EXCEPT !.path = "existing", !.target = owner,
                                   !.oauthFound = TRUE,
                                   !.pc = IF NeedsLogout(current[c], owner)
                                          THEN "logout" ELSE "login"]]
           ELSE req' = [req EXCEPT ![c] =
                        [rq EXCEPT !.pc = "byemail", !.oauthFound = (rows # {})]]
    /\ UNCHANGED <<users, oauths, current, resolved, notOAuthVars>>

\* _security.logout_user(), line 109: the session loses its identity.
LogoutUser(c) ==
    /\ req[c].pc = "logout"
    /\ req' = [req EXCEPT ![c] = [req[c] EXCEPT !.pc = "login", !.loggedOut = TRUE]]
    /\ current' = [current EXCEPT ![c] = 0]
    /\ UNCHANGED <<users, oauths, resolved, notOAuthVars>>

\* A lookup that never finds the account.
FindUserByEmailNever(us, email) == {}

\* select(User).filter_by(email=email)
FindUserByEmail(us, email) == {u \in us : u.email = email}

\* handle_oauth_callback, lines 113-117 and 130-131.
LookupUser(c) ==
    /\ req[c].pc = "byemail"
    /\ LET rq == [req[c] EXCEPT !.lookups = @ + 1]
           found == FindUserByEmail(users, rq.email)
       IN  IF Cardinality(found) > 1
           THEN req' = [req EXCEPT ![c] = Finished(rq, "error")]
           ELSE IF found # {}
           THEN req' = [req EXCEPT ![c] =
                    [rq EXCEPT !.path = "link",
                               !.target = (CHOOSE u \in found : TRUE).id,
                               !.pc = IF rq.oauthFound THEN "login" ELSE "link"]]
           ELSE req' = [req EXCEPT ![c] = [rq EXCEPT !.path = "create", !.pc = "create"]]
    /\ UNCHANGED <<users, oauths, current, resolved, notOAuthVars>>

\* handle_oauth_callback, lines 118-125: bind the provider account to the
\* existing User and commit; an IntegrityError reaches the callback's except.
LinkCommit(c) ==
    /\ req[c].pc = "link"
    /\ LET rq == req[c]
           res == CommitLink(users, oauths, NewOAuth(rq.provider, rq.puid, rq.target))
       IN  /\ oauths' = res.oauths
           /\ req' = [req EXCEPT ![c] =
                        IF res.ok THEN [rq EXCEPT !.pc = "login", !.writes = @ + 1]
                        ELSE Finished(rq, "error")]
    /\ UNCHANGED <<users, current, resolved, notOAuthVars>>

\* handle_oauth_callback, lines 130-139: new User and its binding, one commit.
CreateCommit(c) ==
    /\ req[c].pc = "create"
    /\ Cardinality(users) < MaxUsers
    /\ LET rq == req[c]
           u == create_oauth_user(users, rq.email, rq.provider, rq.puid)
           res == CommitNew(users, oauths, u, NewOAuth(rq.provider, rq.puid, u.id))
       IN  /\ users' = res.users
           /\ oauths' = res.oauths
           /\ req' = [req EXCEPT ![c] =
                        IF res.ok
                        THEN [rq EXCEPT !.pc = "login", !.target = u.id, !.writes = @ + 1]
                        ELSE Finished(rq, "error")]
    /\ UNCHANGED <<current, resolved, notOAuthVars>>

\* _security.login_user(user) and the redirect to the dashboard.
LoginUser(c) ==
    /\ req[c].pc = "login"
    /\ LET rq == req[c]
       IN  /\ req' = [req EXCEPT ![c] = Finished([rq EXCEPT !.loggedIn = TRUE], "ok")]
           /\ current' = [current EXCEPT ![c] = rq.target]
           /\ resolved' = resolved \cup {[provider |-> rq.provider,
                                          provider_user_id |-> rq.puid, uid |-> rq.target]}
    /\ UNCHANGED <<users, oauths, notOAuthVars>>

\* Registration or api_user_create: a local account with any free email/username.
RegisterUser ==
    /\ Cardinality(users) < MaxUsers
    /\ \E email \in Emails :
         LET u == [id |-> NextUserId(users), email |-> email, password_set |-> TRUE,
                   origin |-> <<"local", Null>>]
         IN  /\ UserInsertOK(users, u)
             /\ users' = users \cup {u}
    /\ UNCHANGED <<oauths, current, req, resolved, notOAuthVars>>

\* The logout endpoint, between two requests of browser session c.
Logout(c) ==
    /\ Free(c)
    /\ current[c] # 0
    /\ current' = [current EXCEPT ![c] = 0]
    /\ UNCHANGED <<users, oauths, req, resolved, notOAuthVars>>

\* ------------------------------------------------------ session registry
SessionLifetime == 3600
RetentionDays == 30
SecondsPerDay == 86400
Retention == RetentionDays * SecondsPerDay

SessionUsers == {1, 2}
\* getattr(session, "sid", None) or session.get("_id", ""): the token may be empty.
Tokens == {"", "t1", "t2"}
Device1 == [ip |-> "ip1", meta |-> "m1"]
Device2 == [ip |-> "ip2", meta |-> "m2"]
Devices == {Device1, Device2}
Handlers == {"h1", "h2"}
ClockSteps == {1, SessionLifetime, Retention}

NoRow ==
    [id |-> 0, user_id |-> 0, session_token |-> Null, ip_address |-> Null,
     meta |-> Null, is_active |-> FALSE, created_at |-> 0, last_active |-> 0]

NoPending ==
    [kind |-> "none", loaded |-> NoRow, user_id |-> 0, session_token |-> Null,
     ip_address |-> Null, meta |-> Null, last_active |-> 0]

IdleHandler == [pc |-> "idle", p |-> NoPending]

\* select(cls).filter_by(session_token=session_token)
SelectByToken(S, tok) == {s \in S : s.session_token = tok}

\* A create_session that never looks for the token's record.
create_session_insert_only(S, user_id, tok, ip, meta, t) ==
    [NoPending EXCEPT !.kind = "insert", !.user_id = user_id, !.session_token = tok,
                      !.ip_address = ip, !.meta = meta, !.last_active = t]

\* Session.create_session: what the call leaves pending in the storage
\* session; last_active of an existing row is set to datetime.now() here.
create_session(S, user_id, tok, ip, meta, t) ==
    LET ex == SelectByToken(S, tok)
        base == [NoPending EXCEPT !.user_id = user_id, !.session_token = tok,
                                  !.ip_address = ip, !.meta = meta, !.last_active = t]
    IN  IF Cardinality(ex) > 1 THEN [base EXCEPT !.kind = "raise"]
        ELSE IF ex # {} THEN [base EXCEPT !.kind = "update", !.loaded = CHOOSE e \in ex : TRUE]
        ELSE [base EXCEPT !.kind = "insert"]

\* The flush of a schema without the unique index on session_token.
FlushNoUnique(S, p, t, nid) ==
    IF p.kind = "insert"
    THEN [ok |-> TRUE,
          sessions |-> S \cup {[id |-> nid, user_id |-> p.user_id,
                                session_token |-> p.session_token,
                                ip_address |-> p.ip_address, meta |-> p.meta,
                                is_active |-> TRUE, created_at |-> t, last_active |-> t]}]
    ELSE IF p.kind = "update" /\ \E s \in S : s.id = p.loaded.id
    THEN LET cur == CHOOSE s \in S : s.id = p.loaded.id
             new == [cur EXCEPT
                       !.user_id = IF p.user_id # p.loaded.user_id THEN p.user_id ELSE @,
                       !.ip_address = IF p.ip_address # p.loaded.ip_address
                                      THEN p.ip_address ELSE @,
                       !.meta = IF p.meta # p.loaded.meta THEN p.meta ELSE @,
                       !.is_active = IF ~p.loaded.is_active THEN TRUE ELSE @,
                       !.last_active = IF p.last_active # p.loaded.last_active
                                       THEN p.last_active ELSE @]
         IN  [ok |-> TRUE, sessions |-> (S \ {cur}) \cup {new}]
    ELSE [ok |-> FALSE, sessions |-> S]

\* commit() after create_session, at time t: the flush of the pending row.
\* INSERT: created_at and last_active default to datetime.now(); refused when
\* the token is taken (session_token unique). UPDATE by primary key of the
\* columns whose value differs from the loaded one; fails when the row is gone.
Flush(S, p, t, nid) ==
    IF p.kind = "insert" /\ SelectByToken(S, p.session_token) # {}
    THEN [ok |-> FALSE, sessions |-> S]
    ELSE FlushNoUnique(S, p, t, nid)

\* create_session followed by commit with nothing in between.
CreateAndCommit(S, user_id, tok, ip, meta, t, nid) ==
    Flush(S, create_session(S, user_id, tok, ip, meta, t), t, nid).sessions

\* if exclude_token: stmt.where(session_token != exclude_token)
Excludes(exclude_token, tok) == exclude_token \notin {Null, ""} /\ tok = exclude_token

\* Session.deactivate_user_sessions: one UPDATE ... SET is_active = false.
deactivate_user_sessions(S, user_id, exclude_token) ==
    {IF s.user_id = user_id /\ s.is_active /\ ~Excludes(exclude_token, s.session_token)
     THEN [s EXCEPT !.is_active = FALSE] ELSE s : s \in S}

\* user_logged_out_handler: if token: UPDATE ... WHERE session_token == token.
logout_session(S, tok) ==
    IF tok \in {Null, ""} THEN S
    ELSE {IF s.session_token = tok /\ s.is_active
          THEN [s EXCEPT !.is_active = FALSE] ELSE s : s \in S}

\* A sweep whose delete statement spares the rows that were inactive.
cleanup_sparing_inactive(S, t) ==
    LET old == {s \in S : s.is_active /\ s.created_at < t - Retention}
    IN  {IF s.is_active /\ s.created_at < t - SessionLifetime
         THEN [s EXCEPT !.is_active = FALSE] ELSE s : s \in S \ old}

\* A sweep that deletes inactive expired rows before it deactivates.
cleanup_deleting_inactive(S, t) ==
    LET kept == {s \in S : ~(~s.is_active /\ s.created_at < t - SessionLifetime)}
    IN  {IF s.is_active /\ s.created_at < t - SessionLifetime
         THEN [s EXCEPT !.is_active = FALSE] ELSE s : s \in kept}

\* A sweep that decides by the time of last use.
cleanup_by_last_active(S, t) ==
    LET cutoff == t - SessionLifetime
        delete_cutoff == t - Retention
        deactivated == {IF s.is_active /\ s.last_active < cutoff
                        THEN [s EXCEPT !.is_active = FALSE] ELSE s : s \in S}
    IN  {s \in deactivated : ~(s.last_active < delete_cutoff)}

\* cleanup_expired_sessions at time t: deactivate the active rows created
\* before t - lifetime, then delete the rows created before t - 30 days.
cleanup_expired_sessions(S, t) ==
    LET cutoff == t - SessionLifetime
        delete_cutoff == t - Retention
        deactivated == {IF s.is_active /\ s.created_at < cutoff
                        THEN [s EXCEPT !.is_active = FALSE] ELSE s : s \in S}
    IN  {s \in deactivated : ~(s.created_at < delete_cutoff)}

HandlerFree(h) == sreq[h].pc \in {"idle", "done", "failed"}

\* user_authenticated_handler up to the answer of create_session's select.
Authenticated(h, u, tok, d) ==
    /\ HandlerFree(h)
    /\ LET p == create_session(sessions, u, tok, d.ip, d.meta, now)
       IN  sreq' = [sreq EXCEPT ![h] =
                      IF p.kind = "raise" THEN [IdleHandler EXCEPT !.pc = "failed"]
                      ELSE [pc |-> "commit", p |-> p]]
    /\ UNCHANGED <<sessions, nextSid, now, ticks, disableMulti, sweptAt, notSessVars>>

\* user_authenticated_handler, line 258: await g.db_session.commit().
AuthCommit(h) ==
    /\ sreq[h].pc = "commit"
    /\ sreq[h].p.kind = "insert" => nextSid <= MaxSessionRows
    /\ LET p == sreq[h].p
           res == Flush(sessions, p, now, nextSid)
       IN  /\ sessions' = res.sessions
           /\ nextSid' = IF res.ok /\ p.kind = "insert" THEN nextSid + 1 ELSE nextSid
           /\ sreq' = [sreq EXCEPT ![h] =
                         IF ~res.ok THEN [sreq[h] EXCEPT !.pc = "failed"]
                         ELSE IF disableMulti THEN [sreq[h] EXCEPT !.pc = "others"]
                         ELSE [sreq[h] EXCEPT !.pc = "done"]]
           /\ sweptAt' = IF res.ok THEN -1 ELSE sweptAt
    /\ UNCHANGED <<now, ticks, disableMulti, notSessVars>>

\* user_authenticated_handler, lines 268-270: user.logout_other_sessions(token)
\* and commit.
AuthLogoutOthers(h) ==
    /\ sreq[h].pc = "others"
    /\ sessions' = deactivate_user_sessions(sessions, sreq[h].p.user_id,
                                            sreq[h].p.session_token)
    /\ sreq' = [sreq EXCEPT ![h] = [sreq[h] EXCEPT !.pc = "done"]]
    /\ UNCHANGED <<nextSid, now, ticks, disableMulti, sweptAt, notSessVars>>

\* user_logged_out_handler for the session carrying token tok.
LoggedOut(tok) ==
    /\ sessions' = logout_session(sessions, tok)
    /\ UNCHANGED <<nextSid, now, ticks, sreq, disableMulti, sweptAt, notSessVars>>

\* User.logout_other_sessions / Session.deactivate_user_sessions called for
\* user u, and the caller's commit.
LogoutOtherSessions(u, exclude_token) ==
    /\ sessions' = deactivate_user_sessions(sessions, u, exclude_token)
    /\ UNCHANGED <<nextSid, now, ticks, sreq, disableMulti, sweptAt, notSessVars>>

\* cleanup_expired_sessions, from the scheduler or the cleanup-sessions command.
CleanupExpiredSessions ==
    /\ sessions' = cleanup_expired_sessions(sessions, now)
    /\ sweptAt' = now
    /\ UNCHANGED <<nextSid, now, ticks, sreq, disableMulti, notSessVars>>

\* Time passes.
Tick(d) ==
    /\ ticks < MaxTicks
    /\ now' = now + d
    /\ ticks' = ticks + 1
    /\ UNCHANGED <<sessions, nextSid, sreq, disableMulti, sweptAt, notSessVars>>

\* -------------------------------------------------------- broadcast hub
\* str(current_user.id) of the users that open sockets.
Identities == {"1", "2"}
\* The caller of /ws: an authenticated user or Null for a caller without one.
Callers == Identities \cup {Null}
Conns == {"k1", "k2"}
\* asyncio.Queue(): maxsize 0, a queue without bound.
QueueMaxSize == 0

CloseFrame == [type |-> "close", code |-> 4001, reason |-> "Unauthorized", user_id |-> Null, id |-> 0]
AckFrame(u) == [type |-> "connected", code |-> 0, reason |-> Null, user_id |-> u, id |-> 0]
MsgFrame(m) == [type |-> "message", code |-> 0, reason |-> Null, user_id |-> Null, id |-> m]

\* A connection before /ws was called for it.
NewConn ==
    [pc |-> "new", user |-> Null, sender |-> "unborn", receiver |-> "unborn",
     holding |-> 0, frames |-> <<>>, registeredAt |-> 0, releasedAt |-> 0,
     enqueuedIn |-> {}, lateFrame |-> FALSE]

IdleBroadcast ==
    [pc |-> "idle", msg |-> 0, user |-> Null, live |-> FALSE, targets |-> {},
     size0 |-> 0, visited |-> {}, waitingOn |-> Null]

\* get_connected_users(): list(_clients.keys())
get_connected_users(C) == DOMAIN C

\* _clients.get(user_id, set())
HandlesOf(C, u) == IF u \in DOMAIN C THEN C[u] ELSE {}

\* {q for qs in _clients.values() for q in qs}
AllHandles(C) == UNION {C[u] : u \in DOMAIN C}

\* A caller check that lets every caller in.
IsAuthenticatedAnyone(caller) == TRUE

\* not (not current_user or not current_user.is_authenticated)
IsAuthenticated(caller) == caller # Null

\* _clients.setdefault(user_id, set()).add(queue)
Register(C, u, k) ==
    [x \in DOMAIN C \cup {u} |-> IF x = u THEN HandlesOf(C, u) \cup {k} ELSE C[x]]

\* An unregister that deletes the identity's entry whatever it still holds.
UnregisterDroppingEntry(C, u, k) ==
    IF u \notin DOMAIN C THEN [ok |-> FALSE, clients |-> C]
    ELSE [ok |-> TRUE, clients |-> [x \in DOMAIN C \ {u} |-> C[x]]]

\* An unregister that leaves the emptied entry in the registry.
UnregisterKeepingEntry(C, u, k) ==
    IF u \notin DOMAIN C THEN [ok |-> FALSE, clients |-> C]
    ELSE [ok |-> TRUE, clients |-> [C EXCEPT ![u] = @ \ {k}]]

\* _clients[user_id].discard(queue); if not _clients[user_id]: del _clients[user_id]
\* (_clients[user_id] raises KeyError when the entry is gone).
Unregister(C, u, k) ==
    IF u \notin DOMAIN C THEN [ok |-> FALSE, clients |-> C]
    ELSE IF C[u] \ {k} = {} THEN [ok |-> TRUE, clients |-> [x \in DOMAIN C \ {u} |-> C[x]]]
    ELSE [ok |-> TRUE, clients |-> [C EXCEPT ![u] = @ \ {k}]]

\* A queue created with maxsize=1.
QueueFullAtOne(q) == Len(q) >= 1

\* Queue.full(): maxsize > 0 and qsize() >= maxsize
QueueFull(q) == QueueMaxSize > 0 /\ Len(q) >= QueueMaxSize

\* A selection that ignores the identity.
TargetsEveryone(C, uid) == AllHandles(C)

\* A selection that sends a broadcast without identity to one identity only.
TargetsOfOne(C, uid) ==
    IF uid \notin {Null, ""} THEN HandlesOf(C, uid)
    ELSE IF DOMAIN C = {} THEN {} ELSE C[CHOOSE u \in DOMAIN C : TRUE]

\* targets = _clients.get(user_id, set()) if user_id else {q for qs in ...}
Targets(C, uid) ==
    IF uid \notin {Null, ""} THEN HandlesOf(C, uid) ELSE AllHandles(C)

\* A registration that starts the outbound pump at once.
RegisteredConnPumping(u, m) ==
    [NewConn EXCEPT !.pc = "ack", !.user = u, !.registeredAt = m, !.sender = "get"]

\* ws_endpoint, lines 42-44: the connection once its handle is registered.
RegisteredConn(u, m) == [NewConn EXCEPT !.pc = "ack", !.user = u, !.registeredAt = m]

\* A teardown that does not wait for the cancelled duties.
DutiesOverAtOnce(c) == TRUE

\* asyncio.gather(sender, receiver, return_exceptions=True) has returned.
DutiesOver(c) == c.sender = "done" /\ c.receiver = "done"

\* The socket of connection c has closed: a duty has ended or the endpoint
\* is past asyncio.wait.
Ended(c) == c.pc \in {"gather", "closed"} \/ c.sender = "done" \/ c.receiver = "done"

\* Where connection c is in its life when a message is put on its queue.
Phase(c) == IF Ended(c) THEN {"ended"} ELSE IF c.pc = "ack" THEN {"ack"} ELSE {}

\* sender.cancel(); receiver.cancel()
CancelDuty(d) == IF d = "done" THEN "done" ELSE "cancelling"

Broadcasters == {"b1"}

\* The outer finally of ws_endpoint, lines 67-69, for connection k.
Release(k) ==
    LET res == Unregister(clients, conn[k].user, k)
    IN  /\ clients' = res.clients
        /\ hubErr' = IF res.ok THEN hubErr ELSE hubErr \cup {"KeyError"}
        /\ conn' = [conn EXCEPT ![k].pc = "closed", ![k].releasedAt = nextMsg]

\* ws_endpoint, lines 38-44: reject the caller or register a fresh queue.
WsConnect(k, caller) ==
    /\ running = Null
    /\ conn[k].pc = "new"
    /\ IF IsAuthenticated(caller)
       THEN /\ clients' = Register(clients, caller, k)
            /\ conn' = [conn EXCEPT ![k] = RegisteredConn(caller, nextMsg)]
       ELSE /\ conn' = [conn EXCEPT ![k].pc = "rejected", ![k].frames = <<CloseFrame>>]
            /\ UNCHANGED clients
    /\ UNCHANGED <<queue, enq, bc, running, nextMsg, hubErr, calls, notHubVars>>

\* ws_endpoint, lines 47-62: the acknowledgement is out; both duties are
\* created and the endpoint waits for the first of them to complete.
AckSent(k) ==
    /\ running = Null
    /\ conn[k].pc = "ack"
    /\ conn' = [conn EXCEPT ![k].pc = "wait",
                            ![k].frames = Append(@, AckFrame(conn[k].user)),
                            ![k].sender = IF @ = "unborn" THEN "get" ELSE @,
                            ![k].receiver = "recv"]
    /\ UNCHANGED <<clients, queue, enq, bc, running, nextMsg, hubErr, calls, notHubVars>>

\* websocket.send of the acknowledgement raises, or the endpoint is
\* cancelled while it waits for it: the outer finally runs.
AckFails(k) ==
    /\ running = Null
    /\ conn[k].pc = "ack"
    /\ Release(k)
    /\ UNCHANGED <<queue, enq, bc, running, nextMsg, calls, notHubVars>>

\* _sender: msg = await queue.get() returns and websocket.send(msg) starts.
SenderTakes(k) ==
    /\ running = Null
    /\ conn[k].sender = "get"
    /\ queue[k] # <<>>
    /\ conn' = [conn EXCEPT ![k].sender = "send", ![k].holding = Head(queue[k])]
    /\ queue' = [queue EXCEPT ![k] = Tail(@)]
    /\ UNCHANGED <<clients, enq, bc, running, nextMsg, hubErr, calls, notHubVars>>

\* _sender: await websocket.send(msg) returns.
SenderSent(k) ==
    /\ running = Null
    /\ conn[k].sender = "send"
    /\ conn' = [conn EXCEPT ![k].sender = "get", ![k].holding = 0,
                            ![k].frames = Append(@, MsgFrame(conn[k].holding)),
                            ![k].lateFrame = @ \/ Ended(conn[k])]
    /\ UNCHANGED <<clients, queue, enq, bc, running, nextMsg, hubErr, calls, notHubVars>>

\* _sender: await websocket.send(msg) raises; the pump ends.
SenderFails(k) ==
    /\ running = Null
    /\ conn[k].sender = "send"
    /\ conn' = [conn EXCEPT ![k].sender = "done", ![k].holding = 0]
    /\ UNCHANGED <<clients, queue, enq, bc, running, nextMsg, hubErr, calls, notHubVars>>

\* _receiver: await websocket.receive() raises on the remote close.
ReceiverEnds(k) ==
    /\ running = Null
    /\ conn[k].receiver = "recv"
    /\ conn' = [conn EXCEPT ![k].receiver = "done"]
    /\ UNCHANGED <<clients, queue, enq, bc, running, nextMsg, hubErr, calls, notHubVars>>

\* asyncio.wait(..., FIRST_COMPLETED) returns; the inner finally cancels both
\* duties and awaits asyncio.gather.
WaitReturns(k) ==
    /\ running = Null
    /\ conn[k].pc = "wait"
    /\ conn[k].sender = "done" \/ conn[k].receiver = "done"
    /\ conn' = [conn EXCEPT ![k].pc = "gather", ![k].sender = CancelDuty(@),
                            ![k].receiver = CancelDuty(@)]
    /\ UNCHANGED <<clients, queue, enq, bc, running, nextMsg, hubErr, calls, notHubVars>>

\* The endpoint is cancelled while it waits in asyncio.wait (the connection
\* was closed): the inner finally cancels both duties and awaits gather.
EndpointCancelled(k) ==
    /\ running = Null
    /\ conn[k].pc = "wait"
    /\ conn' = [conn EXCEPT ![k].pc = "gather", ![k].sender = CancelDuty(@),
                            ![k].receiver = CancelDuty(@)]
    /\ UNCHANGED <<clients, queue, enq, bc, running, nextMsg, hubErr, calls, notHubVars>>

\* The cancelled pump gets its CancelledError and ends.
SenderCancelled(k) ==
    /\ running = Null
    /\ conn[k].sender = "cancelling"
    /\ conn' = [conn EXCEPT ![k].sender = "done", ![k].holding = 0]
    /\ UNCHANGED <<clients, queue, enq, bc, running, nextMsg, hubErr, calls, notHubVars>>

\* The cancelled drain gets its CancelledError and ends.
ReceiverCancelled(k) ==
    /\ running = Null
    /\ conn[k].receiver = "cancelling"
    /\ conn' = [conn EXCEPT ![k].receiver = "done"]
    /\ UNCHANGED <<clients, queue, enq, bc, running, nextMsg, hubErr, calls, notHubVars>>

\* asyncio.gather returns; the outer finally releases the handle.
GatherReturns(k) ==
    /\ running = Null
    /\ conn[k].pc = "gather"
    /\ DutiesOver(conn[k])
    /\ Release(k)
    /\ UNCHANGED <<queue, enq, bc, running, nextMsg, calls, notHubVars>>

\* broadcast, lines 26-31: serialize and select the targets. With an identity
\* the loop iterates the registry's own set, without one a new set.
BroadcastCall(b, uid, n) ==
    /\ running = Null
    /\ bc[b].pc \in {"idle", "done", "failed"}
    /\ nextMsg <= n
    /\ LET t == Targets(clients, uid)
       IN  bc' = [bc EXCEPT ![b] =
                    [IdleBroadcast EXCEPT !.pc = "run", !.msg = nextMsg, !.user = uid,
                                          !.live = uid \notin {Null, ""}, !.targets = t,
                                          !.size0 = Cardinality(t)]]
    /\ calls' = Append(calls, uid)
    /\ nextMsg' = nextMsg + 1
    /\ running' = b
    /\ UNCHANGED <<clients, queue, enq, conn, hubErr>>

\* A call of broadcast by a caller that changes nothing else.
BroadcastUpTo(b, uid, n) == BroadcastCall(b, uid, n) /\ UNCHANGED notHubVars

\* The callers of broadcast make MaxBroadcasts calls.
BroadcastStart(b, uid) == BroadcastUpTo(b, uid, MaxBroadcasts)

\* queue.put_nowait(payload) on the handle of connection k.
Enqueue(b, k) ==
    /\ queue' = [queue EXCEPT ![k] = Append(@, bc[b].msg)]
    /\ enq' = [enq EXCEPT ![k] = Append(@, bc[b].msg)]
    /\ conn' = [conn EXCEPT ![k].enqueuedIn = @ \cup Phase(conn[k])]

\* broadcast, lines 32-33: one turn of "for queue in targets: await
\* queue.put(payload)". put suspends only on a full queue; until then the
\* broadcast keeps the event loop.
BroadcastStep(b) ==
    /\ bc[b].pc = "run"
    /\ IF bc[b].waitingOn # Null
       THEN running = Null /\ ~QueueFull(queue[bc[b].waitingOn])
       ELSE running = b
    /\ LET r == bc[b]
           cur == IF r.live THEN Targets(clients, r.user) ELSE r.targets
       IN  IF r.waitingOn # Null
           THEN /\ Enqueue(b, r.waitingOn)
                /\ bc' = [bc EXCEPT ![b].waitingOn = Null,
                                    ![b].visited = @ \cup {r.waitingOn}]
                /\ running' = b
                /\ UNCHANGED hubErr
           ELSE IF r.live /\ Cardinality(cur) # r.size0
           THEN /\ bc' = [bc EXCEPT ![b].pc = "failed"]
                /\ hubErr' = hubErr \cup {"RuntimeError"}
                /\ running' = Null
                /\ UNCHANGED <<queue, enq, conn>>
           ELSE IF cur \ r.visited = {}
           THEN /\ bc' = [bc EXCEPT ![b].pc = "done"]
                /\ running' = Null
                /\ UNCHANGED <<queue, enq, conn, hubErr>>
           ELSE \E k \in cur \ r.visited :
                  IF QueueFull(queue[k])
                  THEN /\ bc' = [bc EXCEPT ![b].waitingOn = k]
                       /\ running' = Null
                       /\ UNCHANGED <<queue, enq, conn, hubErr>>
                  ELSE /\ Enqueue(b, k)
                       /\ bc' = [bc EXCEPT ![b].visited = @ \cup {k}]
                       /\ UNCHANGED <<running, hubErr>>
    /\ UNCHANGED <<clients, nextMsg, calls, notHubVars>>

HubInit ==
    /\ clients = <<>>
    /\ queue = [k \in Conns |-> <<>>]
    /\ enq = [k \in Conns |-> <<>>]
    /\ conn = [k \in Conns |-> NewConn]
    /\ bc = [b \in Broadcasters |-> IdleBroadcast]
    /\ running = Null
    /\ nextMsg = 1
    /\ hubErr = {}
    /\ calls = <<>>

\* ---------------------------------------------------------- rate limiter
\* check_security_rate_limit: period = 60, max_calls = 10.
Period == 60
MaxCalls == 10

\* f"security:{get_real_ip()}" for two client addresses.
Keys == {"security:ip1", "security:ip2"}
RateCallers == {"r1", "r2"}

\* now = time.monotonic() is a float of seconds: the clock of the model counts
\* fractions of a second, TicksPerSecond of them to the second.
TicksPerSecond == 2
PeriodTicks == Period * TicksPerSecond
Seconds(n) == n * TicksPerSecond
MonoSteps == {Seconds(1), Seconds(Period - 1)}

IdleCheck == [pc |-> "idle", key |-> Null, now |-> 0]

\* while window and window[0] <= now - period: window.popleft()
RECURSIVE Evict(_, _)
Evict(w, t) == IF w # <<>> /\ Head(w) <= t - PeriodTicks THEN Evict(Tail(w), t) ELSE w

\* int(x) of a positive number of seconds held as ticks: the fraction is cut.
IntOf(x) == x \div TicksPerSecond

\* retry_after without the added second.
RetryAfterNoExtraSecond(t, oldest) == IntOf(PeriodTicks - (t - oldest))

\* retry_after = int(period - (now - window[0])) + 1
RetryAfter(t, oldest) == IntOf(PeriodTicks - (t - oldest)) + 1

\* What a check hands back: None when it lets the request through, else
\* {"message": "Too many requests"}, 429, {"Retry-After": str(retry_after)}.
\* now and oldest keep the clock reading and window[0] the answer was made of.
NoAnswer ==
    [kind |-> "none", status |-> 0, message |-> "", retry_after |-> 0,
     key |-> Null, now |-> 0, oldest |-> 0]
Allow(k, t) ==
    [kind |-> "allow", status |-> 0, message |-> "", retry_after |-> 0,
     key |-> k, now |-> t, oldest |-> 0]
TooManyRequests(k, t, w) ==
    [kind |-> "reject", status |-> 429, message |-> "Too many requests",
     retry_after |-> RetryAfter(t, Head(w)), key |-> k, now |-> t, oldest |-> Head(w)]

\* A check that reaches an await between its count and its append.
SuspendsBeforeAppendAlways == TRUE

\* Lines 55-69 hold no await: the check runs from time.monotonic() to
\* window.append(now) without leaving the event loop.
SuspendsBeforeAppend == FALSE

\* A rejection that records the rejected check.
AfterRejectionRecorded(w, t) == Append(w, t)

\* Lines 65-67: the rejected check returns before window.append(now); the
\* window keeps what the eviction left.
AfterRejection(w, t) == w

\* if len(window) >= max_calls: the check is rejected.
Rejects(w) == Len(w) >= MaxCalls

\* The body of check_security_rate_limit for caller c with key k: evict,
\* count, decide, append.
RateCheck(c, k) ==
    /\ IF rl[c].pc = "idle"
       THEN /\ nchecks < MaxChecks
            /\ nchecks' = nchecks + 1
            /\ LET w == Evict(hits[k], mono)
               IN  IF Rejects(w)
                   THEN /\ hits' = [hits EXCEPT ![k] = AfterRejection(w, mono)]
                        /\ answer' = [answer EXCEPT ![c] = TooManyRequests(k, mono, w)]
                        /\ UNCHANGED <<allowed, rl>>
                   ELSE IF SuspendsBeforeAppend
                   THEN /\ hits' = [hits EXCEPT ![k] = w]
                        /\ rl' = [rl EXCEPT ![c] = [pc |-> "decided", key |-> k, now |-> mono]]
                        /\ UNCHANGED <<allowed, answer>>
                   ELSE /\ hits' = [hits EXCEPT ![k] = Append(w, mono)]
                        /\ allowed' = [allowed EXCEPT ![k] = Append(@, mono)]
                        /\ answer' = [answer EXCEPT ![c] = Allow(k, mono)]
                        /\ UNCHANGED rl
       ELSE /\ k = rl[c].key
            /\ hits' = [hits EXCEPT ![k] = Append(@, rl[c].now)]
            /\ allowed' = [allowed EXCEPT ![k] = Append(@, rl[c].now)]
            /\ answer' = [answer EXCEPT ![c] = Allow(k, rl[c].now)]
            /\ rl' = [rl EXCEPT ![c] = IdleCheck]
            /\ UNCHANGED nchecks
    /\ UNCHANGED <<mono, rticks, notRateVars>>

\* check_security_rate_limit called on its own.
CheckSecurityRateLimit(c, k) == RateCheck(c, k) /\ UNCHANGED handled

\* _auth_paths, and the routes of the two OAuth callbacks.
AuthPaths == {"/login", "/register", "/reset", "/confirm"}
CallbackPaths == {"/login/google/callback", "/login/github/callback"}
Paths == AuthPaths \cup CallbackPaths
Methods == {"GET", "POST"}

\* The callbacks are routed without a methods argument: GET only.
Routed(path, method) == path \in AuthPaths \/ method = "GET"

\* if request.path in _auth_paths and request.method == "POST"
Gated(path, method) == path \in AuthPaths /\ method = "POST"

\* One request of caller c: _rate_limit_auth runs before the handler, a
\* returned response replaces the handler.  handled keeps the run of the
\* handler of the latest request with what the check said before it ("none":
\* no check was made), and is empty when that request was turned away.
RateLimitAuth(c, path, method, k) ==
    /\ Routed(path, method)
    /\ rl[c].pc = "idle"
    /\ IF Gated(path, method)
       THEN /\ RateCheck(c, k)
            /\ handled' = IF answer'[c].kind = "allow"
                          THEN {[path |-> path, method |-> method, gate |-> "allow"]}
                          ELSE {}
       ELSE /\ handled' = {[path |-> path, method |-> method, gate |-> "none"]}
            /\ UNCHANGED <<hits, allowed, mono, rticks, nchecks, rl, answer, notRateVars>>

\* time.monotonic() advances.
MonoTick(d) ==
    /\ rticks < MaxRateTicks
    /\ mono' = mono + d
    /\ rticks' = rticks + 1
    /\ UNCHANGED <<hits, allowed, nchecks, rl, answer, handled, notRateVars>>

\* The client of caller c, turned away at t with Retry-After r, waits: the
\* clock reaches t + r.
RetryWait(c) ==
    /\ answer[c].kind = "reject"
    /\ mono < answer[c].now + Seconds(answer[c].retry_after)
    /\ MonoTick(answer[c].now + Seconds(answer[c].retry_after) - mono)

RateInit ==
    /\ hits = [k \in Keys |-> <<>>]
    /\ allowed = [k \in Keys |-> <<>>]
    /\ mono = 0
    /\ rticks = 0
    /\ nchecks = 0
    /\ rl = [c \in RateCallers |-> IdleCheck]
    /\ answer = [c \in RateCallers |-> NoAnswer]
    /\ handled = {}

\* ------------------------------------------------------ background tasks
Units == {"u1", "u2"}

\* A detached unit before asyncio.create_task.  kind is "plain" for a
\* coroutine handed to run_in_background and "session" for the _wrapper of
\* run_with_session; pending is the outcome _wrapper carries through the exit
\* of its async with; afterFailure says that another unit had already ended
\* with an exception when this one was created.
NewTask ==
    [pc |-> "unborn", kind |-> "plain", result |-> "none", pending |-> "none",
     exc |-> "none", session |-> "none", committed |-> FALSE, rolledBack |-> FALSE,
     abandoned |-> FALSE, afterFailure |-> FALSE]

Running(t) == t.pc \in {"ready", "body", "commit", "rollback"}
TaskDone(t) == t.pc \in {"finished", "observed"}

\* A caller that waits for the task it has created.
DetachedNever == FALSE

\* run_in_background returns the task without awaiting it.
Detached == TRUE

\* task = asyncio.create_task(coro); task.add_done_callback(...); return task
CreateTask(u, kind) ==
    /\ sched.pc = "running"
    /\ hook.pc = "serving"
    /\ tasks[u].pc = "unborn"
    /\ tasks' = [tasks EXCEPT ![u] = [NewTask EXCEPT !.pc = "ready", !.kind = kind,
                     !.afterFailure = \E v \in Units : tasks[v].result = "exception"]]
    /\ sched' = IF Detached THEN sched ELSE [pc |-> "awaiting", on |-> u]
    /\ UNCHANGED <<tlog, hook, hlog, notTaskVars>>

RunInBackground(u) == CreateTask(u, "plain")

\* return await run_in_background(_wrapper())
RunWithSession(u) == CreateTask(u, "session")

\* The scheduling caller runs to its end.
CallerReturns ==
    /\ sched.pc = "running"
    /\ sched' = [sched EXCEPT !.pc = "returned"]
    /\ UNCHANGED <<tasks, tlog, hook, hlog, notTaskVars>>

\* The task of unit u becomes done with record t: its result or exception is
\* set, and only a caller awaiting it is resumed with it.
TaskEnds(u, t) ==
    /\ tasks' = [tasks EXCEPT ![u] = [t EXCEPT !.pc = "finished"]]
    /\ sched' = IF sched.pc = "awaiting" /\ sched.on = u
                THEN [pc |-> IF t.result = "ok" THEN "running" ELSE "crashed", on |-> Null]
                ELSE sched

\* The first step of the task: the coroutine runs to its first await; the
\* wrapper of run_with_session has entered async with and holds a session.
TaskStarts(u) ==
    /\ tasks[u].pc = "ready"
    /\ tasks' = [tasks EXCEPT ![u] = [@ EXCEPT !.pc = "body",
                     !.session = IF tasks[u].kind = "session" THEN "open" ELSE "none"]]
    /\ UNCHANGED <<tlog, sched, hook, hlog, notTaskVars>>

\* A coroutine handed to run_in_background returns.
UnitReturns(u) ==
    /\ tasks[u].pc = "body" /\ tasks[u].kind = "plain"
    /\ TaskEnds(u, [tasks[u] EXCEPT !.result = "ok"])
    /\ UNCHANGED <<tlog, hook, hlog, notTaskVars>>

\* A coroutine handed to run_in_background raises.
UnitRaises(u) ==
    /\ tasks[u].pc = "body" /\ tasks[u].kind = "plain"
    /\ TaskEnds(u, [tasks[u] EXCEPT !.result = "exception", !.exc = "unit"])
    /\ UNCHANGED <<tlog, hook, hlog, notTaskVars>>

\* An except clause that re-raises without session.rollback().
ExceptClauseNoRollback(t, e) == [t EXCEPT !.pc = "closing", !.exc = e, !.pending = "exception"]

\* except Exception: await session.rollback(); raise
ExceptClause(t, e) == [t EXCEPT !.pc = "rollback", !.exc = e]

\* await coro_factory(session) returns: await session.commit() is next.
FactoryReturns(u) ==
    /\ tasks[u].pc = "body" /\ tasks[u].kind = "session"
    /\ tasks' = [tasks EXCEPT ![u] = [@ EXCEPT !.pc = "commit"]]
    /\ UNCHANGED <<tlog, sched, hook, hlog, notTaskVars>>

\* await coro_factory(session) raises.
FactoryRaises(u) ==
    /\ tasks[u].pc = "body" /\ tasks[u].kind = "session"
    /\ tasks' = [tasks EXCEPT ![u] = ExceptClause(@, "factory")]
    /\ UNCHANGED <<tlog, sched, hook, hlog, notTaskVars>>

\* await session.commit() returns: the body of async with is left normally.
CommitReturns(u) ==
    /\ tasks[u].pc = "commit"
    /\ tasks' = [tasks EXCEPT ![u] = [@ EXCEPT !.pc = "closing", !.committed = TRUE, !.pending = "ok"]]
    /\ UNCHANGED <<tlog, sched, hook, hlog, notTaskVars>>

\* await session.commit() raises.
CommitRaises(u) ==
    /\ tasks[u].pc = "commit"
    /\ tasks' = [tasks EXCEPT ![u] = ExceptClause(@, "commit")]
    /\ UNCHANGED <<tlog, sched, hook, hlog, notTaskVars>>

\* await session.rollback() returns and the exception is raised again.
RollbackReturns(u) ==
    /\ tasks[u].pc = "rollback"
    /\ tasks' = [tasks EXCEPT ![u] = [@ EXCEPT !.pc = "closing", !.rolledBack = TRUE, !.pending = "exception"]]
    /\ UNCHANGED <<tlog, sched, hook, hlog, notTaskVars>>

\* The exit of async with has closed the session; the wrapper ends with the
\* outcome it carried.
SessionCloses(u) ==
    /\ tasks[u].pc = "closing"
    /\ TaskEnds(u, [tasks[u] EXCEPT !.session = "closed", !.result = tasks[u].pending])
    /\ UNCHANGED <<tlog, hook, hlog, notTaskVars>>

\* CancelledError is thrown into the task at the await it is suspended in.
\* except Exception does not catch it: a wrapper that holds a session leaves
\* async with, any other task ends at once.
Cancel(u, abandoned) ==
    /\ Running(tasks[u])
    /\ IF tasks[u].session = "open"
       THEN /\ tasks' = [tasks EXCEPT ![u] = [@ EXCEPT !.pc = "closing",
                             !.pending = "cancelled", !.abandoned = abandoned]]
            /\ UNCHANGED sched
       ELSE TaskEnds(u, [tasks[u] EXCEPT !.result = "cancelled", !.abandoned = abandoned])
    /\ UNCHANGED <<tlog, hook, hlog, notTaskVars>>

\* task.cancel() by a holder of the task returned by run_in_background.
TaskCancelled(u) == hook.pc # "down" /\ Cancel(u, FALSE)

\* The event loop is torn down after the hook: the tasks still in flight are
\* cancelled.
LoopCloses(u) == hook.pc = "down" /\ Cancel(u, TRUE)

\* A done callback that logs whatever the task ended with.
LogsFailureAlways(t) == TRUE

\* if not task.cancelled() and task.exception()
LogsFailure(t) == t.result = "exception"

\* _log_task_exception, the done callback, called once by the loop after the
\* task is done.
LogTaskException(u) ==
    /\ tasks[u].pc = "finished"
    /\ tasks' = [tasks EXCEPT ![u] = [@ EXCEPT !.pc = "observed"]]
    /\ tlog' = IF LogsFailure(tasks[u])
               THEN Append(tlog, [unit |-> u, level |-> "error",
                                  msg |-> "Background task failed", detail |-> tasks[u].exc])
               ELSE tlog
    /\ UNCHANGED <<sched, hook, hlog, notTaskVars>>

\* ------------------------------------------------------------- shutdown
\* _lifespan after its yield.  The server resumes it when it stops serving.
ShutdownBegins ==
    /\ hook.pc = "serving"
    /\ \E backend \in BOOLEAN :
          hook' = [hook EXCEPT !.pc = IF backend THEN "backend" ELSE "dispose"]
    /\ UNCHANGED <<tasks, tlog, sched, hlog, notTaskVars>>

\* await close_result returns.
BackendCloseReturns ==
    /\ hook.pc = "backend"
    /\ hook' = [hook EXCEPT !.pc = "pool"]
    /\ UNCHANGED <<tasks, tlog, sched, hlog, notTaskVars>>

\* close_method() or await close_result raises.
BackendCloseRaises ==
    /\ hook.pc = "backend"
    /\ hook' = [hook EXCEPT !.pc = "pool"]
    /\ hlog' = hlog \cup {"Error while closing session backend"}
    /\ UNCHANGED <<tasks, tlog, sched, notTaskVars>>

\* await disconnect_result returns, or the backend has no pool.
PoolDisconnectReturns ==
    /\ hook.pc = "pool"
    /\ hook' = [hook EXCEPT !.pc = "dispose"]
    /\ UNCHANGED <<tasks, tlog, sched, hlog, notTaskVars>>

\* disconnect() or await disconnect_result raises.
PoolDisconnectRaises ==
    /\ hook.pc = "pool"
    /\ hook' = [hook EXCEPT !.pc = "dispose"]
    /\ hlog' = hlog \cup {"Error while disconnecting session pool"}
    /\ UNCHANGED <<tasks, tlog, sched, notTaskVars>>

\* ext.engine.dispose() returns within the timeout.
DisposeReturns ==
    /\ hook.pc = "dispose"
    /\ hook' = [hook EXCEPT !.pc = "down"]
    /\ UNCHANGED <<tasks, tlog, sched, hlog, notTaskVars>>

\* asyncio.wait_for(..., timeout=5) raises TimeoutError.
DisposeTimesOut ==
    /\ hook.pc = "dispose"
    /\ hook' = [hook EXCEPT !.pc = "down"]
    /\ hlog' = hlog \cup {"Timed out while disposing SQLAlchemy engine"}
    /\ UNCHANGED <<tasks, tlog, sched, notTaskVars>>

\* ext.engine.dispose() raises: the exception leaves the hook.
DisposeRaises ==
    /\ hook.pc = "dispose"
    /\ hook' = [hook EXCEPT !.pc = "down", !.raised = TRUE]
    /\ UNCHANGED <<tasks, tlog, sched, hlog, notTaskVars>>

TaskInit ==
    /\ tasks = [u \in Units |-> NewTask]
    /\ tlog = <<>>
    /\ sched = [pc |-> "running", on |-> Null]
    /\ hook = [pc |-> "serving", raised |-> FALSE]
    /\ hlog = {}

\* ------------------------------------------------------ units of work
\* A request and the storage session app.py opens for it. The unit of work
\* adds one row and commits: a Session row (Session.create_session in
\* user_authenticated_handler) or an Activity row (Activity.register).
Requests == {"q1", "q2"}
Rows == {"session", "activity"}

\* Where the unit of work runs: in a view whose exceptions reach the
\* application's error handler, inside the try block of an OAuth callback,
\* or inside the try block of api_user_create.
Routes == {"view", "callback", "api"}

IdleWork ==
    [pc |-> "idle", route |-> Null, g |-> FALSE, session |-> "none", txn |-> "none",
     pending |-> {}, event |-> 0, failed |-> FALSE, rollbacks |-> 0, status |-> 0,
     atReport |-> Null]

\* AsyncSession.rollback(): the transaction is over, what it added is gone.
Rollback(w) == [w EXCEPT !.txn = "none", !.pending = {}, !.rollbacks = @ + 1]

\* AsyncSession.close(): the connection goes back to the pool, which resets
\* it; a transaction in progress is discarded.
Close(w) == [w EXCEPT !.txn = "none", !.pending = {}, !.session = "closed"]

\* An after_request hook that leaves the session alone.
CloseSessionNever(w) == w

\* _close_session: db_session = g.pop("db_session", None); close it if set.
CloseSession(w) == IF w.g THEN [Close(w) EXCEPT !.g = FALSE] ELSE w

\* _open_session: g.db_session = ext.async_session_factory()
OpenSession(q, route) ==
    /\ work[q].pc = "idle"
    /\ work' = [work EXCEPT ![q] = [IdleWork EXCEPT !.pc = "unit", !.route = route,
                                                    !.g = TRUE, !.session = "open"]]
    /\ UNCHANGED <<stored, oauth_state, issued, notWebVars>>

\* Session.create_session: g.db_session.add(session_record); the select
\* before it began the transaction.
CreateSessionAdds(q) ==
    /\ running = Null
    /\ work[q].pc = "unit" /\ work[q].pending = {}
    /\ work' = [work EXCEPT ![q].txn = "active", ![q].pending = {"session"}]
    /\ UNCHANGED <<stored, oauth_state, issued, notWebVars>>

\* Activity.register: g.db_session.add(activity), then await broadcast(...)
\* without user_id. The call of broadcast starts within the same step.
ActivityRegister(q, b) ==
    /\ work[q].pc = "unit" /\ work[q].pending = {}
    /\ BroadcastCall(b, Null, MaxBacklog)
    /\ work' = [work EXCEPT ![q].txn = "active", ![q].pending = {"activity"},
                            ![q].event = nextMsg]
    /\ UNCHANGED <<stored, oauth_state, issued, oauthVars, sessVars, rateVars, taskVars, config>>

\* await g.db_session.commit() returns and the view returns its response.
WorkCommits(q) ==
    /\ running = Null
    /\ work[q].pc = "unit" /\ work[q].pending # {}
    /\ stored' = stored \cup {<<q, r>> : r \in work[q].pending}
    /\ work' = [work EXCEPT ![q].txn = "none", ![q].pending = {}, ![q].pc = "after",
                            ![q].status = 200]
    /\ UNCHANGED <<oauth_state, issued, notWebVars>>

\* A statement or the commit of the unit raises. In a view the exception
\* leaves the view; the except clause of an OAuth callback logs, flashes and
\* returns the redirect to the login page; the except clause of
\* api_user_create rolls back and returns 412.
WorkRaises(q) ==
    /\ running = Null
    /\ work[q].pc = "unit" /\ work[q].pending # {}
    /\ LET w == [work[q] EXCEPT !.failed = TRUE]
       IN  work' = [work EXCEPT ![q] =
                      CASE w.route = "view" -> [w EXCEPT !.pc = "errorhandler"]
                        [] w.route = "callback" -> [w EXCEPT !.pc = "after", !.status = 302]
                        [] OTHER -> [Rollback(w) EXCEPT !.pc = "after", !.status = 412]]
    /\ UNCHANGED <<stored, oauth_state, issued, notWebVars>>

\* handle_exception: pop g.db_session, roll it back (an exception of the
\* rollback is swallowed), close it, answer with the error's code.
HandleException(q, rollbackRaises) ==
    /\ running = Null
    /\ work[q].pc = "errorhandler"
    /\ LET w == IF rollbackRaises THEN work[q] ELSE Rollback(work[q])
       IN  work' = [work EXCEPT ![q] =
                      [(IF w.g THEN Close(w) ELSE w) EXCEPT !.g = FALSE, !.pc = "after",
                                                            !.status = 500]]
    /\ UNCHANGED <<stored, oauth_state, issued, notWebVars>>

\* The after_request hook _close_session runs on the response.
AfterRequest(q) ==
    /\ running = Null
    /\ work[q].pc = "after"
    /\ work' = [work EXCEPT ![q] = [CloseSession(work[q]) EXCEPT !.pc = "send"]]
    /\ UNCHANGED <<stored, oauth_state, issued, notWebVars>>

\* The response leaves for the caller.
Respond(q) ==
    /\ running = Null
    /\ work[q].pc = "send"
    /\ work' = [work EXCEPT ![q].pc = "done",
                            ![q].atReport = [txn |-> work[q].txn, session |-> work[q].session,
                                             rollbacks |-> work[q].rollbacks]]
    /\ UNCHANGED <<stored, oauth_state, issued, notWebVars>>

WebInit ==
    /\ work = [q \in Requests |-> IdleWork]
    /\ stored = {}
    /\ oauth_state = [c \in Clients |-> NoState]
    /\ issued = 0

\* -------------------------------------------------------- configuration
\* The session lifetimes an installation runs with: the default, and twice
\* the default.
Lifetimes == {SessionLifetime, 2 * SessionLifetime}

\* The configuration nobody has changed.
ConfInit == config = [PERMANENT_SESSION_LIFETIME |-> SessionLifetime]

\* -------------------------------------------------------- specifications
InitOAuth ==
    /\ users = {}
    /\ oauths = {}
    /\ current = [c \in Clients |-> 0]
    /\ req = [c \in Clients |-> IdleReq]
    /\ resolved = {}
    /\ sessions = {}
    /\ nextSid = 1
    /\ now = 0
    /\ ticks = 0
    /\ sreq = [h \in Handlers |-> IdleHandler]
    /\ disableMulti = FALSE
    /\ sweptAt = -1
    /\ HubInit
    /\ RateInit
    /\ TaskInit
    /\ ConfInit
    /\ WebInit

NextOAuth ==
    \/ \E c \in Clients : GoogleCallback(c)
    \/ \E c \in Clients : GithubCallback(c)
    \/ \E c \in Clients : HandleOAuthCallback(c)
    \/ \E c \in Clients : ProviderFails(c)
    \/ \E c \in Clients : ProviderAnswers(c)
    \/ \E c \in Clients : LookupOAuth(c)
    \/ \E c \in Clients : LogoutUser(c)
    \/ \E c \in Clients : LookupUser(c)
    \/ \E c \in Clients : LinkCommit(c)
    \/ \E c \in Clients : CreateCommit(c)
    \/ \E c \in Clients : LoginUser(c)
    \/ RegisterUser
    \/ \E c \in Clients : Logout(c)

SpecOAuth == InitOAuth /\ [][NextOAuth]_vars

\* One browser and the accounts of a provider: two accounts of the same
\* provider may carry the same email, one after the other.
AccountIds == {"abc", "xyz"}

NextBinding ==
    \/ GoogleCallback("c1")
    \/ GithubCallback("c1")
    \/ ProviderFails("c1")
    \/ \E rawid \in AccountIds, email \in Emails : ProviderProfile("c1", rawid, email)
    \/ LookupOAuth("c1")
    \/ LogoutUser("c1")
    \/ LookupUser("c1")
    \/ LinkCommit("c1")
    \/ CreateCommit("c1")
    \/ LoginUser("c1")
    \/ Logout("c1")

SpecBinding == InitOAuth /\ [][NextBinding]_vars

\* Logins through the providers from their initiation on: the callback
\* carries any state value issued so far, or none, with or without a code.
StateParams == (1..MaxStates) \cup {NoState}

NextState ==
    \/ \E c \in Clients, provider \in Providers : LoginInitiation(c, provider)
    \/ \E c \in Clients, provider \in Providers, state \in StateParams, code \in BOOLEAN :
          state <= issued /\ CallbackRequest(c, provider, state, code)
    \/ \E c \in Clients : ProviderFails(c)
    \/ \E c \in Clients : ProviderProfile(c, "abc", "a@x.com")
    \/ \E c \in Clients : LookupOAuth(c)
    \/ \E c \in Clients : LookupUser(c)
    \/ \E c \in Clients : LinkCommit(c)
    \/ \E c \in Clients : CreateCommit(c)
    \/ \E c \in Clients : LoginUser(c)
    \/ \E c \in Clients : Logout(c)

SpecState == InitOAuth /\ [][NextState]_vars

\* Interleaved authentications on shared tokens, no clock.
InitSession ==
    /\ users = {}
    /\ oauths = {}
    /\ current = [c \in Clients |-> 0]
    /\ req = [c \in Clients |-> IdleReq]
    /\ resolved = {}
    /\ sessions = {}
    /\ nextSid = 1
    /\ now = 0
    /\ ticks = 0
    /\ sreq = [h \in Handlers |-> IdleHandler]
    /\ disableMulti \in BOOLEAN
    /\ sweptAt = -1
    /\ HubInit
    /\ RateInit
    /\ TaskInit
    /\ ConfInit
    /\ WebInit

NextSession ==
    \/ \E h \in Handlers, u \in SessionUsers, tok \in {"", "t1"} :
          Authenticated(h, u, tok, Device1)
    \/ \E h \in Handlers : AuthCommit(h)
    \/ \E h \in Handlers : AuthLogoutOthers(h)
    \/ \E tok \in {"", "t1"} : LoggedOut(tok)
    \/ \E u \in SessionUsers, ex \in {"", "t1", Null} : LogoutOtherSessions(u, ex)

SpecSession == InitSession /\ [][NextSession]_vars

\* One authentication at a time, every owner and device, no clock.
NextRegistry ==
    \/ \E u \in SessionUsers, tok \in {"", "t1"}, d \in Devices :
          Authenticated("h1", u, tok, d)
    \/ AuthCommit("h1")
    \/ AuthLogoutOthers("h1")
    \/ \E tok \in {"", "t1"} : LoggedOut(tok)
    \/ \E u \in SessionUsers, ex \in {"", "t1", Null} : LogoutOtherSessions(u, ex)

SpecRegistry == InitSession /\ [][NextRegistry]_vars

\* Authentications one after the other in an installation that has set
\* DISABLE_MULTIPLE_SESSIONS; nothing else touches the registry.
NextLogin ==
    \/ \E u \in SessionUsers, tok \in Tokens, d \in Devices : Authenticated("h1", u, tok, d)
    \/ AuthCommit("h1")
    \/ AuthLogoutOthers("h1")

InitLogin == InitSession /\ disableMulti

SpecLogin == InitLogin /\ [][NextLogin]_vars

\* The sweep against the clock: one user, one device; the clock moves by
\* the session lifetime and by the retention time, so that records are
\* exactly as old as a threshold or older.
SweepSteps == {SessionLifetime, Retention}

NextSweep ==
    \/ \E tok \in {"t1", "t2"} : Authenticated("h1", 1, tok, Device1)
    \/ AuthCommit("h1")
    \/ LoggedOut("t1")
    \/ CleanupExpiredSessions
    \/ \E d \in SweepSteps : Tick(d)

InitSweep == InitSession /\ ~disableMulti

SpecSweep == InitSweep /\ [][NextSweep]_vars

\* The sweep in an installation that has configured its session lifetime.
InitConfigured ==
    /\ users = {}
    /\ oauths = {}
    /\ current = [c \in Clients |-> 0]
    /\ req = [c \in Clients |-> IdleReq]
    /\ resolved = {}
    /\ sessions = {}
    /\ nextSid = 1
    /\ now = 0
    /\ ticks = 0
    /\ sreq = [h \in Handlers |-> IdleHandler]
    /\ disableMulti = FALSE
    /\ sweptAt = -1
    /\ HubInit
    /\ RateInit
    /\ TaskInit
    /\ \E lifetime \in Lifetimes : config = [PERMANENT_SESSION_LIFETIME |-> lifetime]
    /\ WebInit

SpecConfigured == InitConfigured /\ [][NextSweep]_vars

\* The hub: two sockets, one broadcasting request handler at a time.
InitHub == InitOAuth

NextHub ==
    \/ \E caller \in {"1", Null} : WsConnect("k1", caller)
    \/ \E caller \in Callers : WsConnect("k2", caller)
    \/ \E k \in Conns : AckSent(k)
    \/ \E k \in Conns : AckFails(k)
    \/ \E k \in Conns : SenderTakes(k)
    \/ \E k \in Conns : SenderSent(k)
    \/ \E k \in Conns : SenderFails(k)
    \/ \E k \in Conns : ReceiverEnds(k)
    \/ \E k \in Conns : WaitReturns(k)
    \/ \E k \in Conns : EndpointCancelled(k)
    \/ \E k \in Conns : SenderCancelled(k)
    \/ \E k \in Conns : ReceiverCancelled(k)
    \/ \E k \in Conns : GatherReturns(k)
    \/ \E b \in Broadcasters, uid \in {"1", Null} : BroadcastStart(b, uid)
    \/ \E b \in Broadcasters : BroadcastStep(b)

SpecHub == InitHub /\ [][NextHub]_vars

\* The event loop runs every task that is ready: the endpoint whose wait or
\* gather can return, a cancelled duty, the broadcast that holds the loop.
FairHub ==
    /\ \A k \in Conns : WF_vars(WaitReturns(k)) /\ WF_vars(GatherReturns(k))
    /\ \A k \in Conns : WF_vars(SenderCancelled(k)) /\ WF_vars(ReceiverCancelled(k))
    /\ \A b \in Broadcasters : WF_vars(BroadcastStep(b))

\* The lives of two sockets of one identity, with broadcasts to everyone.
NextLife ==
    \/ \E k \in Conns : WsConnect(k, "1")
    \/ \E k \in Conns : AckSent(k)
    \/ \E k \in Conns : AckFails(k)
    \/ \E k \in Conns : SenderTakes(k)
    \/ \E k \in Conns : SenderSent(k)
    \/ \E k \in Conns : SenderFails(k)
    \/ \E k \in Conns : ReceiverEnds(k)
    \/ \E k \in Conns : WaitReturns(k)
    \/ \E k \in Conns : EndpointCancelled(k)
    \/ \E k \in Conns : SenderCancelled(k)
    \/ \E k \in Conns : ReceiverCancelled(k)
    \/ \E k \in Conns : GatherReturns(k)
    \/ \E b \in Broadcasters : BroadcastStart(b, Null)
    \/ \E b \in Broadcasters : BroadcastStep(b)

SpecHubLive == InitHub /\ [][NextLife]_vars /\ FairHub

\* The backlog of a handle: sockets of one identity that stay open, pumps
\* that run when the loop lets them, and MaxBacklog broadcasts. Only the
\* broadcast that holds the event loop is sure to be scheduled.
NextBacklog ==
    \/ \E k \in Conns : WsConnect(k, "1")
    \/ \E k \in Conns : AckSent(k)
    \/ \E k \in Conns : SenderTakes(k)
    \/ \E k \in Conns : SenderSent(k)
    \/ \E b \in Broadcasters, uid \in {"1", Null} : BroadcastUpTo(b, uid, MaxBacklog)
    \/ \E b \in Broadcasters : BroadcastStep(b)

SpecBacklog ==
    InitHub /\ [][NextBacklog]_vars /\ \A b \in Broadcasters : WF_vars(BroadcastStep(b))

\* Two requests with a unit of work each, on every route, and one open
\* socket that receives what Activity.register broadcasts.
NextUnit ==
    \/ \E q \in Requests, route \in Routes : OpenSession(q, route)
    \/ \E q \in Requests : CreateSessionAdds(q)
    \/ \E q \in Requests, b \in Broadcasters : ActivityRegister(q, b)
    \/ \E b \in Broadcasters : BroadcastStep(b)
    \/ \E q \in Requests : WorkCommits(q)
    \/ \E q \in Requests : WorkRaises(q)
    \/ \E q \in Requests, rollbackRaises \in BOOLEAN : HandleException(q, rollbackRaises)
    \/ \E q \in Requests : AfterRequest(q)
    \/ \E q \in Requests : Respond(q)
    \/ WsConnect("k1", "1")
    \/ AckSent("k1")
    \/ SenderTakes("k1")
    \/ SenderSent("k1")

SpecUnit == InitOAuth /\ [][NextUnit]_vars

\* The rate limiter: two callers behind one address, one clock.
InitRate == InitOAuth

NextRate ==
    \/ \E c \in RateCallers : CheckSecurityRateLimit(c, "security:ip1")
    \/ \E d \in MonoSteps : MonoTick(d)

SpecRate == InitRate /\ [][NextRate]_vars

\* The rate limiter seen through its answers: a caller, and a second one
\* behind the same address that comes once the first has been turned away;
\* the clock moves by half a second, by 5 seconds and by 56 seconds.
RetrySteps == {1, Seconds(5), Seconds(56)}

NextRetry ==
    \/ CheckSecurityRateLimit("r1", "security:ip1")
    \/ answer["r1"].kind = "reject" /\ CheckSecurityRateLimit("r2", "security:ip1")
    \/ \E d \in RetrySteps : MonoTick(d)

SpecRetry == InitRate /\ [][NextRetry]_vars

\* Clients behind one address that come back when Retry-After tells them to;
\* in between the clock moves by half a second and by 5 seconds.
WaitSteps == {1, Seconds(5)}

NextWait ==
    \/ CheckSecurityRateLimit("r1", "security:ip1")
    \/ answer["r1"].kind = "reject" /\ CheckSecurityRateLimit("r2", "security:ip1")
    \/ \E d \in WaitSteps : MonoTick(d)
    \/ \E c \in RateCallers : RetryWait(c)

SpecWait == InitRate /\ [][NextWait]_vars

\* Two callers, each behind an address of its own: the second one comes once
\* the first has used up its allowance.
NextFrame ==
    \/ CheckSecurityRateLimit("r1", "security:ip1")
    \/ Len(allowed["security:ip1"]) >= MaxCalls /\ CheckSecurityRateLimit("r2", "security:ip2")
    \/ \E d \in MonoSteps : MonoTick(d)

SpecFrame == InitRate /\ [][NextFrame]_vars

\* Requests arriving at the application from one address.
NextGate ==
    \/ \E path \in Paths, method \in Methods : RateLimitAuth("r1", path, method, "security:ip1")
    \/ \E d \in MonoSteps : MonoTick(d)

SpecGate == InitRate /\ [][NextGate]_vars

\* Detached units, their scheduling caller and the shutdown hook.
InitSupervisor == InitOAuth

NextSupervisor ==
    \/ \E u \in Units : RunInBackground(u)
    \/ \E u \in Units : RunWithSession(u)
    \/ CallerReturns
    \/ \E u \in Units : TaskStarts(u)
    \/ \E u \in Units : UnitReturns(u)
    \/ \E u \in Units : UnitRaises(u)
    \/ \E u \in Units : FactoryReturns(u)
    \/ \E u \in Units : FactoryRaises(u)
    \/ \E u \in Units : CommitReturns(u)
    \/ \E u \in Units : CommitRaises(u)
    \/ \E u \in Units : RollbackReturns(u)
    \/ \E u \in Units : SessionCloses(u)
    \/ \E u \in Units : TaskCancelled(u)
    \/ \E u \in Units : LoopCloses(u)
    \/ \E u \in Units : LogTaskException(u)
    \/ ShutdownBegins
    \/ BackendCloseReturns
    \/ BackendCloseRaises
    \/ PoolDisconnectReturns
    \/ PoolDisconnectRaises
    \/ DisposeReturns
    \/ DisposeTimesOut
    \/ DisposeRaises

\* The loop runs every task that can take a step, the code of a unit and
\* the storage answer in the end, the loop calls the done callbacks, and the
\* timer of wait_for fires.  Nothing makes the session backend answer.
FairSupervisor ==
    /\ \A u \in Units : WF_vars(TaskStarts(u))
    /\ \A u \in Units : WF_vars(UnitReturns(u) \/ UnitRaises(u))
    /\ \A u \in Units : WF_vars(FactoryReturns(u) \/ FactoryRaises(u))
    /\ \A u \in Units : WF_vars(CommitReturns(u) \/ CommitRaises(u))
    /\ \A u \in Units : WF_vars(RollbackReturns(u))
    /\ \A u \in Units : WF_vars(SessionCloses(u))
    /\ \A u \in Units : WF_vars(LogTaskException(u))
    /\ WF_vars(DisposeReturns \/ DisposeTimesOut \/ DisposeRaises)

SpecSupervisor == InitSupervisor /\ [][NextSupervisor]_vars /\ FairSupervisor

\* ---------------------------------------------------------------- claims
InFlight(c) == req[c].pc \notin {"idle", "done", "exchange"}

Key(rq) == <<rq.provider, rq.puid>>

\* C1: among reconcile calls that carry the same (provider, provider_user_id),
\* at most one User is ever created, and all the calls that log somebody in
\* log in the same User.
C1_OneUserPerProviderAccount ==
    /\ \A u, v \in users :
         (u.origin = v.origin /\ ~u.password_set /\ ~v.password_set) => u = v
    /\ \A a, b \in resolved :
         (a.provider = b.provider /\ a.provider_user_id = b.provider_user_id)
            => a.uid = b.uid

\* C1 witness: a later call on an already resolved provider account is about
\* to log its owner in although it carries another email than the owner's.
C1_Witness ==
    \E c \in Clients :
        /\ req[c].pc = "login" /\ req[c].path = "existing"
        /\ \E a \in resolved : <<a.provider, a.provider_user_id>> = Key(req[c])
                                  /\ a.uid = req[c].target
        /\ \E u \in users : u.id = req[c].target /\ u.email # req[c].email

\* C2: when a User with email E exists and no OAuth row exists for the call's
\* (provider, provider_user_id), the email lookup picks that User, the commit
\* adds exactly one OAuth row bound to it and no User, and that User is the
\* one logged in.
C2_LinksToExistingUser ==
    /\ [][\A c \in Clients :
            /\ ( /\ req[c].pc = "byemail" /\ req'[c] # req[c]
                 /\ ~req[c].oauthFound
                 /\ \E u \in users : u.email = req[c].email )
               => ( /\ req'[c].pc = "link"
                    /\ \E u \in users : u.email = req[c].email /\ req'[c].target = u.id
                    /\ users' = users /\ oauths' = oauths )
            /\ ( /\ req[c].pc = "link" /\ req'[c] # req[c]
                 /\ FindOAuth(oauths, req[c].provider, req[c].puid) = {} )
               => ( /\ users' = users
                    /\ oauths' = oauths \cup
                          {NewOAuth(req[c].provider, req[c].puid, req[c].target)}
                    /\ Cardinality(oauths') = Cardinality(oauths) + 1
                    /\ req'[c].pc = "login" /\ req'[c].target = req[c].target )
            /\ ( req[c].pc = "login" /\ req'[c] # req[c] )
               => ( /\ current'[c] = req[c].target
                    /\ req'[c].outcome = "ok" /\ req'[c].loggedIn
                    /\ users' = users /\ oauths' = oauths )
         ]_vars
    /\ [](\A c \in Clients :
            (req[c].path = "link" /\ req[c].pc \in {"link", "login"})
               => \E u \in users : u.id = req[c].target /\ u.email = req[c].email)

\* C2 witness: a call has linked a second provider to an existing User: one
\* User, bound to both the google and the github account, logged in.
C2_Witness ==
    \E c \in Clients :
        /\ req[c].pc = "done" /\ req[c].outcome = "ok" /\ req[c].path = "link"
        /\ Cardinality(users) = 1
        /\ \E g, h \in oauths : /\ g.provider = "google" /\ h.provider = "github"
                                /\ g.user_id = h.user_id /\ current[c] = g.user_id

\* C3: in every persisted state each User made by reconcile has its OAuth row
\* and each OAuth row has its User, also after a commit that failed.
C3_UserAndBindingTogether ==
    /\ \A o \in oauths : o.user_id \in UserIds(users)
    /\ \A u \in users :
         ~u.password_set =>
            \E o \in oauths : o.user_id = u.id
                                /\ <<o.provider, o.provider_user_id>> = u.origin

\* C3 witness: a create-new commit has failed while reconcile-made Users exist.
C3_Witness ==
    /\ \E c \in Clients : /\ req[c].pc = "done" /\ req[c].outcome = "error"
                          /\ req[c].path = "create"
    /\ \E u \in users : ~u.password_set

InputFailures == {"no_token", "unknown_provider", "no_email"}

\* C4: a call without token, with an unknown provider or without email ends
\* failed with no storage lookup, no write and no login or logout, the tables
\* and the browser session are unchanged by it, and no call gets past the
\* guards with such input.
C4_InvalidInputFailsFirst ==
    /\ [](\A c \in Clients :
            /\ req[c].outcome \in InputFailures
                 => ( /\ req[c].pc = "done"
                      /\ req[c].lookups = 0 /\ req[c].writes = 0
                      /\ ~req[c].loggedIn /\ ~req[c].loggedOut )
            /\ InFlight(c)
                 => ( /\ req[c].token /\ req[c].provider \in Providers
                      /\ req[c].email \in Emails ))
    /\ [][\A c \in Clients :
            (req'[c] # req[c] /\ req'[c].outcome \in InputFailures)
               => (users' = users /\ oauths' = oauths /\ current' = current)
         ]_vars

\* C4 witness: a profile without email has been refused while the tables hold rows.
C4_Witness ==
    \E c \in Clients :
        /\ req[c].pc = "done" /\ req[c].outcome = "no_email"
        /\ users # {} /\ oauths # {}

\* C5: a callback whose provider exchange fails ends redirected to login with
\* no storage lookup, no write and no login, and the failing step leaves the
\* tables and the browser session unchanged.
C5_ProviderFailureTouchesNothing ==
    /\ [](\A c \in Clients :
            req[c].netfail =>
               ( /\ req[c].pc = "done" /\ req[c].outcome = "provider_error"
                 /\ req[c].lookups = 0 /\ req[c].writes = 0
                 /\ ~req[c].loggedIn /\ ~req[c].loggedOut ))
    /\ [][\A c \in Clients :
            (req[c].pc = "exchange" /\ req'[c].netfail)
               => (users' = users /\ oauths' = oauths /\ current' = current)
         ]_vars

\* C5 witness: an exchange has failed for an anonymous caller while the tables hold rows.
C5_Witness ==
    \E c \in Clients :
        /\ req[c].netfail /\ req[c].outcome = "provider_error"
        /\ current[c] = 0 /\ users # {} /\ oauths # {}

\* C6: in the logged-in-existing path the owner is logged in only over a
\* session that is anonymous or already the owner's: a session of another
\* User has been logged out first, and the logout step precedes the login.
C6_LogoutBeforeLogin ==
    /\ [](\A c \in Clients :
            /\ (req[c].path = "existing" /\ req[c].pc = "login")
                 => current[c] \in {0, req[c].target}
            /\ req[c].pc = "logout"
                 => (req[c].path = "existing" /\ ~req[c].loggedIn
                       /\ current[c] \notin {0, req[c].target})
            /\ (req[c].path = "existing" /\ req[c].loggedIn) => req[c].pc = "done")
    /\ [][\A c \in Clients :
            (req[c].pc = "logout" /\ req'[c] # req[c])
               => (current'[c] = 0 /\ req'[c].pc = "login" /\ req'[c].loggedOut)
         ]_vars

\* C6 witness: a session of another User has been logged out and the owner
\* of the matched OAuth row is about to be logged in.
C6_Witness ==
    \E c \in Clients :
        /\ req[c].pc = "login" /\ req[c].path = "existing" /\ req[c].loggedOut
        /\ current[c] = 0

\* The table without the column last_active.
WithoutLastActive(S) ==
    {[id |-> s.id, user_id |-> s.user_id, session_token |-> s.session_token,
      ip_address |-> s.ip_address, meta |-> s.meta, is_active |-> s.is_active,
      created_at |-> s.created_at] : s \in S}

\* C7: create_session (and its commit) with a token that has a record sets
\* that record's owner, ip, meta, is_active=True and last_active in place and
\* adds no row; with a new token it inserts one active record; a second call
\* with the same arguments leaves one record for the token and changes
\* nothing but last_active.
C7_CreateOrRefresh ==
    \A u \in SessionUsers, tok \in Tokens, d \in Devices, t \in {now, now + 1} :
        LET S1 == CreateAndCommit(sessions, u, tok, d.ip, d.meta, t, nextSid)
            old == SelectByToken(sessions, tok)
        IN  /\ old # {} =>
                 \E e \in old :
                    S1 = (sessions \ {e}) \cup
                           {[e EXCEPT !.user_id = u, !.ip_address = d.ip, !.meta = d.meta,
                                      !.is_active = TRUE, !.last_active = t]}
            /\ old # {} => Cardinality(S1) = Cardinality(sessions)
            /\ old = {} =>
                 /\ Cardinality(S1) = Cardinality(sessions) + 1
                 /\ \E n \in S1 :
                       /\ S1 = sessions \cup {n} /\ n \notin sessions
                       /\ n.session_token = tok /\ n.user_id = u /\ n.is_active
                       /\ n.ip_address = d.ip /\ n.meta = d.meta
            /\ \A t2 \in {t, t + 1} :
                 LET S2 == CreateAndCommit(S1, u, tok, d.ip, d.meta, t2, nextSid + 1)
                 IN  /\ Cardinality(SelectByToken(S2, tok)) = 1
                     /\ WithoutLastActive(S2) = WithoutLastActive(S1)
                     /\ \A n \in SelectByToken(S2, tok) : n.last_active = t2

\* C7 witness: a handler has committed a refresh that gave an existing
\* record another owner and another ip, beside a record of another token.
C7_Witness ==
    /\ sreq["h1"].pc = "done" /\ sreq["h1"].p.kind = "update"
    /\ sreq["h1"].p.user_id # sreq["h1"].p.loaded.user_id
    /\ sreq["h1"].p.ip_address # sreq["h1"].p.loaded.ip_address
    /\ \E s \in sessions : /\ s.id = sreq["h1"].p.loaded.id
                           /\ s.user_id = sreq["h1"].p.user_id
                           /\ s.ip_address = sreq["h1"].p.ip_address
    /\ Cardinality(sessions) = 2

\* C8: in every reachable state at most one active Session record exists per
\* session_token, also when authentications that present the same token
\* interleave.
C8_OneActiveRecordPerToken ==
    \A a, b \in sessions :
        (a.session_token = b.session_token /\ a.is_active /\ b.is_active) => a = b

\* C8 witness: two interleaved authentications presented the same new token;
\* one inserted the record and the other one's commit was refused.
C8_Witness ==
    \E h \in Handlers :
        /\ sreq[h].pc = "failed" /\ sreq[h].p.kind = "insert"
        /\ \E s \in sessions : s.session_token = sreq[h].p.session_token /\ s.is_active

\* C9: deactivate_user_sessions(user_id, exclude_token) leaves each session of
\* user_id inactive except the one whose token equals exclude_token, which is
\* unchanged; without exclude token (None) all of them become inactive; the
\* sessions of other users are unchanged and no record is inserted or deleted.
C9_DeactivateFrame ==
    \A u \in SessionUsers, ex \in Tokens \cup {Null} :
        LET S2 == deactivate_user_sessions(sessions, u, ex)
        IN  /\ {s.id : s \in S2} = {s.id : s \in sessions}
            /\ Cardinality(S2) = Cardinality(sessions)
            /\ \A s \in sessions :
                 IF s.user_id # u \/ (ex # Null /\ s.session_token = ex)
                 THEN s \in S2
                 ELSE [s EXCEPT !.is_active = FALSE] \in S2

\* C10: a sweep applied at a time at which a sweep has already been applied,
\* with no session created or refreshed in between, changes neither the set
\* of records nor their active flags.
C10_SweepIdempotent ==
    /\ \A t \in {now} \cup {now + d : d \in ClockSteps} :
         cleanup_expired_sessions(cleanup_expired_sessions(sessions, t), t)
            = cleanup_expired_sessions(sessions, t)
    /\ sweptAt = now => cleanup_expired_sessions(sessions, now) = sessions

\* C10 witness: a sweep has run at the current time, deleted a record and
\* left an expired record deactivated.
C10_Witness ==
    /\ sweptAt = now
    /\ nextSid - 1 > Cardinality(sessions)
    /\ \E s \in sessions : ~s.is_active /\ s.created_at < now - SessionLifetime

\* The rows of S as a sweep at time t has to leave them: gone when created
\* more than 30 days before t, kept with the active flag cleared when created
\* more than the lifetime before t, untouched otherwise.
SweptRows(S, t) ==
    /\ \A s \in S : ~(s.created_at < t - Retention)
    /\ \A s \in S : s.created_at < t - SessionLifetime => ~s.is_active

\* C11: after a sweep at time now no record older than 30 days remains,
\* active or not; no remaining record older than the lifetime is active;
\* a record younger than the lifetime is unchanged; a record between the two
\* ages is kept with only its active flag cleared.
C11_SweepEffect ==
    /\ \A t \in {now} \cup {now + d : d \in ClockSteps} :
         LET S2 == cleanup_expired_sessions(sessions, t)
         IN  /\ SweptRows(S2, t)
             /\ {s.id : s \in S2} \subseteq {s.id : s \in sessions}
             /\ Cardinality(S2) = Cardinality({s.id : s \in S2})
             /\ \A s \in sessions :
                  /\ s.created_at < t - Retention => \A r \in S2 : r.id # s.id
                  /\ (s.created_at < t - SessionLifetime /\ ~(s.created_at < t - Retention))
                        => [s EXCEPT !.is_active = FALSE] \in S2
                  /\ s.created_at > t - SessionLifetime => s \in S2
    /\ sweptAt = now => SweptRows(sessions, now)

\* C11 witness: the sweep at the current time has deleted a record, left a
\* record older than the lifetime deactivated and left a young record active.
C11_Witness ==
    /\ sweptAt = now
    /\ nextSid - 1 > Cardinality(sessions)
    /\ \E s \in sessions : ~s.is_active /\ s.created_at < now - SessionLifetime
    /\ \E s \in sessions : s.is_active /\ s.created_at > now - SessionLifetime

\* How often message m was put on a queue whose log is q.
Count(q, m) == Cardinality({i \in 1..Len(q) : q[i] = m})

\* Connection k held a registered handle when broadcast m was called.
RegisteredAtCall(k, m) ==
    /\ conn[k].registeredAt # 0 /\ conn[k].registeredAt <= m
    /\ conn[k].releasedAt = 0 \/ m < conn[k].releasedAt

\* The call of broadcast m has returned.
BroadcastOver(m) == \A b \in Broadcasters : ~(bc[b].msg = m /\ bc[b].pc = "run")

\* C12: broadcast(message, user_id=X) puts the message exactly once on every
\* handle registered under X at the call and on no handle of another
\* identity; when X has no handle nothing is put anywhere.
C12_TargetedBroadcast ==
    \A m \in 1..Len(calls) :
        calls[m] \in Identities =>
            \A k \in Conns :
                /\ Count(enq[k], m) <= 1
                /\ ~(RegisteredAtCall(k, m) /\ conn[k].user = calls[m]) => Count(enq[k], m) = 0
                /\ (BroadcastOver(m) /\ RegisteredAtCall(k, m) /\ conn[k].user = calls[m])
                      => Count(enq[k], m) = 1

\* C12 witness: a broadcast for identity "1" has returned with its message on
\* the handle of "1" while the registered handle of "2" got nothing.
C12_Witness ==
    /\ Len(calls) = 1 /\ calls[1] = "1" /\ BroadcastOver(1)
    /\ conn["k1"].user = "1" /\ enq["k1"] = <<1>>
    /\ conn["k2"].user = "2" /\ RegisteredAtCall("k2", 1) /\ enq["k2"] = <<>>

\* C13: broadcast(message) without identity puts the message exactly once on
\* every handle registered at the call; a handle registered after the call
\* started never gets it.
C13_SnapshotBroadcast ==
    \A m \in 1..Len(calls) :
        calls[m] = Null =>
            \A k \in Conns :
                /\ Count(enq[k], m) <= 1
                /\ ~RegisteredAtCall(k, m) => Count(enq[k], m) = 0
                /\ (BroadcastOver(m) /\ RegisteredAtCall(k, m)) => Count(enq[k], m) = 1

\* C13 witness: a broadcast without identity reached the handle registered
\* at the call; a handle registered afterwards is open without the message.
C13_Witness ==
    /\ Len(calls) = 1 /\ calls[1] = Null /\ BroadcastOver(1)
    /\ RegisteredAtCall("k1", 1) /\ enq["k1"] = <<1>>
    /\ conn["k2"].pc = "wait" /\ conn["k2"].registeredAt = 2 /\ enq["k2"] = <<>>

\* C14: a connection attempt of an unauthenticated caller is closed with 4001
\* "Unauthorized"; it never has a handle in the registry, is never listed by
\* get_connected_users(), and no other frame is sent.
C14_UnauthenticatedRejected ==
    \A k \in Conns :
        (conn[k].pc # "new" /\ conn[k].user = Null) =>
            /\ conn[k].pc = "rejected"
            /\ conn[k].registeredAt = 0
            /\ k \notin AllHandles(clients)
            /\ Null \notin get_connected_users(clients)
            /\ conn[k].frames = <<CloseFrame>>
            /\ enq[k] = <<>>

\* C14 witness: one attempt was rejected while another caller is connected.
C14_Witness ==
    /\ conn["k1"].pc = "rejected"
    /\ conn["k2"].pc = "wait" /\ get_connected_users(clients) = {"2"}

\* C15: the first frame of an accepted connection is the acknowledgement
\* naming the caller's identity, also when a broadcast put a message on the
\* new handle before the acknowledgement; broadcast frames follow it.
C15_AckFirst ==
    \A k \in Conns :
        conn[k].registeredAt # 0 =>
            /\ conn[k].pc = "ack" => conn[k].frames = <<>>
            /\ conn[k].frames # <<>> => conn[k].frames[1] = AckFrame(conn[k].user)
            /\ \A i \in 2..Len(conn[k].frames) : conn[k].frames[i].type = "message"

\* C15 witness: a message put on the handle before the acknowledgement was
\* sent after it.
C15_Witness ==
    \E k \in Conns :
        /\ "ack" \in conn[k].enqueuedIn
        /\ conn[k].frames = <<AckFrame(conn[k].user), MsgFrame(1)>>

\* C16: when a duty of a connection ends the other one is cancelled, and both
\* have finished before the handle is removed: no pump or drain is running
\* for a connection whose handle has been released.
C16_DutiesEndBeforeRelease ==
    \A k \in Conns :
        /\ conn[k].pc = "gather" =>
              conn[k].sender \in {"cancelling", "done"} /\ conn[k].receiver \in {"cancelling", "done"}
        /\ (conn[k].registeredAt # 0 /\ k \notin AllHandles(clients)) =>
              /\ conn[k].pc = "closed"
              /\ conn[k].sender \in {"unborn", "done"}
              /\ conn[k].receiver \in {"unborn", "done"}

\* C16 witness: a connection whose drain ended while its pump was sending has
\* released its handle.
C16_Witness ==
    \E k \in Conns :
        /\ conn[k].pc = "closed" /\ conn[k].sender = "done" /\ conn[k].receiver = "done"
        /\ k \notin AllHandles(clients)
        /\ Len(conn[k].frames) = 2

\* C17: once the socket of a connection has closed (one of its duties has
\* ended) no broadcast puts a message on its handle and no frame is sent for
\* it.
C17_NoDeliveryAfterClose ==
    \A k \in Conns : "ended" \notin conn[k].enqueuedIn /\ ~conn[k].lateFrame

\* The registry after connection k, registered in C, removed its own handle.
WithoutHandle(C, k) ==
    LET u == conn[k].user
    IN  IF C[u] = {k} THEN [x \in DOMAIN C \ {u} |-> C[x]] ELSE [C EXCEPT ![u] = @ \ {k}]

\* C18: an accepted connection whose socket has closed eventually has its
\* handle out of the registry, on every exit path; the step that removes it
\* removes only that handle and deletes the identity's entry exactly when it
\* was the identity's last handle.
C18_HandleReleased ==
    /\ \A k \in Conns :
          (conn[k].registeredAt # 0 /\ Ended(conn[k])) ~> (k \notin AllHandles(clients))
    /\ [][\A k \in Conns :
            (k \in AllHandles(clients) /\ k \notin AllHandles(clients'))
               => clients' = WithoutHandle(clients, k) /\ conn'[k].pc = "closed"]_vars

\* C18 witness: a connection has released its handle while the other handle
\* of the same identity stays registered.
C18_Witness ==
    /\ conn["k1"].pc = "closed" /\ conn["k1"].registeredAt # 0
    /\ conn["k1"].user = "1" /\ conn["k2"].user = "1"
    /\ clients = [x \in {"1"} |-> {"k2"}]

\* C19: under every interleaving of registration, teardown and broadcast no
\* operation fails or corrupts the registry: the set a broadcast iterates is
\* not changed while it iterates, a teardown finds its identity's entry, and
\* every open connection's handle is registered under its identity.
C19_RegistryOperationsSafe ==
    /\ hubErr = {}
    /\ \A b \in Broadcasters :
          /\ bc[b].pc # "failed"
          /\ bc[b].pc = "run" =>
                /\ running = b
                /\ bc[b].live => Cardinality(Targets(clients, bc[b].user)) = bc[b].size0
    /\ \A k \in Conns :
          conn[k].pc \in {"ack", "wait", "gather"} =>
              conn[k].user \in DOMAIN clients /\ k \in clients[conn[k].user]

\* C19 witness: a broadcast for an identity ran between the registration of
\* its first handle and that handle's teardown, after which the identity
\* registered a second handle.
C19_Witness ==
    /\ hubErr = {}
    /\ calls = <<"1">> /\ BroadcastOver(1)
    /\ conn["k1"].pc = "closed" /\ enq["k1"] = <<1>>
    /\ conn["k2"].user = "1" /\ conn["k2"].registeredAt = 2 /\ conn["k2"].pc = "wait"

\* The checks on key k let through with a timestamp in (t - Period, t].
AllowedInWindow(k, t) ==
    {i \in 1..Len(allowed[k]) : t - PeriodTicks < allowed[k][i] /\ allowed[k][i] <= t}

\* The times at which the number of checks of key k in the window ending
\* there can be largest: the count of (t - Period, t] only grows when t
\* passes the timestamp of a check that was let through.
WindowEnds(k) == {allowed[k][i] : i \in 1..Len(allowed[k])} \cup {mono}

\* C20: for every key and every time t at most max_calls checks were let
\* through with a timestamp in (t - period, t], whatever the interleaving of
\* the callers that share the key: no check is in flight between its count
\* and its append when another one runs.
C20_WindowNeverExceeded ==
    /\ \A k \in Keys : \A t \in WindowEnds(k) : Cardinality(AllowedInWindow(k, t)) <= MaxCalls
    /\ \A k \in Keys : Len(hits[k]) <= MaxCalls

\* C20 witness: the key has let max_calls checks through in one window and
\* turned the next ones away.
C20_Witness ==
    /\ Len(hits["security:ip1"]) = MaxCalls
    /\ Cardinality(AllowedInWindow("security:ip1", mono)) = MaxCalls
    /\ Len(allowed["security:ip1"]) < nchecks
    /\ mono > 0

\* C21: a rejected check answers 429 with the message "Too many requests"
\* and a Retry-After that is the integer of period - (now - oldest remaining
\* timestamp) plus one: a whole number r >= 1 of seconds with
\* r - 1 <= period - (now - oldest) < r, equal to period - (now - oldest) + 1
\* when the difference is a whole number of seconds, so 56 for a check at
\* t = 5 against a window whose oldest timestamp is 0.  A check is rejected
\* only when max_calls checks of its key were let through in the period that
\* ends at it: the first ten checks at t = 0 pass and so does one at t = 61.
C21_RetryAfter ==
    \A c \in RateCallers :
        LET a == answer[c]
            left == PeriodTicks - (a.now - a.oldest)
        IN  a.kind = "reject" =>
                /\ a.status = 429
                /\ a.message = "Too many requests"
                /\ a.retry_after >= 1
                /\ Seconds(a.retry_after - 1) <= left /\ left < Seconds(a.retry_after)
                /\ (left % TicksPerSecond = 0 => Seconds(a.retry_after) = left + Seconds(1))
                /\ (a.now = Seconds(5) /\ a.oldest = 0 => a.retry_after = 56)
                /\ Cardinality(AllowedInWindow(a.key, a.now)) >= MaxCalls

\* C21 witness: ten checks passed at t = 0, the eleventh at t = 5 was
\* answered 429 with Retry-After 56, and a check at t = 61 passed.
C21_Witness ==
    /\ allowed["security:ip1"] = [i \in 1..MaxCalls |-> 0] \o <<Seconds(61)>>
    /\ answer["r1"].kind = "reject" /\ answer["r1"].now = Seconds(5)
    /\ answer["r1"].status = 429 /\ answer["r1"].retry_after = 56
    /\ answer["r2"] = Allow("security:ip1", Seconds(61))

\* The authentication entry points: a POST of one of the four form paths
\* and a request of an OAuth callback.
EntryPoint(h) == (h.path \in AuthPaths /\ h.method = "POST") \/ h.path \in CallbackPaths

\* C22: no authentication entry point runs its handler unless the
\* rate-limit check answered Allow first: every run of a handler behind a
\* POST to login, register, reset or confirm, and behind an OAuth callback,
\* was preceded by a check that let the request through.
C22_GateBeforeHandler ==
    \A h \in handled : EntryPoint(h) => h.gate = "allow"

\* C23: a detached unit that raises neither raises into nor ends its
\* scheduling caller: the caller never waits for a task and is never ended by
\* one, the step in which a unit ends with an exception changes neither the
\* caller nor any other unit, and every unit that was scheduled, before or
\* after the failure, runs to its end.
C23_FailureContained ==
    /\ [](sched.pc \notin {"awaiting", "crashed"})
    /\ [][\A u \in Units :
            (tasks[u].result # "exception" /\ tasks'[u].result = "exception")
                => /\ sched' = sched
                   /\ \A v \in Units \ {u} : tasks'[v] = tasks[v]]_vars
    /\ \A u \in Units : (tasks[u].pc = "ready") ~> TaskDone(tasks[u])

\* C23 witness: u1 ended with an exception, u2 was scheduled after that and
\* returned, and the caller ran to its end.
C23_Witness ==
    /\ tasks["u1"].result = "exception"
    /\ tasks["u2"].afterFailure
    /\ tasks["u2"].result = "ok"
    /\ sched.pc = "returned"

\* The failure records written for unit u.
FailureLogs(u) == {i \in 1..Len(tlog) : tlog[i].unit = u}

\* C24: every detached unit that ends with an uncaught exception is in the
\* end logged, exactly once and with the exception it ended with; a unit
\* that returned or was cancelled is never logged, and once the done
\* callback has run no failure is without its record.
C24_FailureLoggedOnce ==
    /\ [](\A u \in Units :
            /\ Cardinality(FailureLogs(u)) <= 1
            /\ \A i \in FailureLogs(u) :
                   /\ tasks[u].result = "exception"
                   /\ tlog[i].level = "error"
                   /\ tlog[i].msg = "Background task failed"
                   /\ tlog[i].detail = tasks[u].exc /\ tlog[i].detail # "none"
            /\ (tasks[u].pc = "observed" /\ tasks[u].result = "exception"
                   => FailureLogs(u) # {}))
    /\ \A u \in Units :
          (tasks[u].result = "exception") ~> (Cardinality(FailureLogs(u)) = 1)

\* C24 witness: u1 raised and has its one record, u2 returned, its done
\* callback has run and nothing was logged for it.
C24_Witness ==
    /\ tasks["u1"].result = "exception" /\ tasks["u1"].pc = "observed"
    /\ tlog = <<[unit |-> "u1", level |-> "error", msg |-> "Background task failed",
                 detail |-> tasks["u1"].exc]>>
    /\ tasks["u2"].result = "ok" /\ tasks["u2"].pc = "observed"

C26_AbandonmentLogged ==
    \A u \in Units :
        tasks[u].abandoned /\ tasks[u].pc = "observed" => FailureLogs(u) # {}

\* C27: shutdown always completes: once the hook has been resumed it
\* reaches its end, whatever the session backend, its pool and the engine do.
C27_ShutdownCompletes ==
    (hook.pc # "serving") ~> (hook.pc = "down")

\* A reconcile call that has made its lookups and has its commit ahead.
AtCommit(rq) == rq.pc \in {"link", "create"}

\* The rows rq is about to insert collide with rows us, os: the provider
\* account is bound already, or the email of the User to create is taken.
Collides(rq, us, os) ==
    \/ \E o \in os : o.provider = rq.provider /\ o.provider_user_id = rq.puid
    \/ rq.pc = "create" /\ \E u \in us : u.email = rq.email

\* Two calls race: both have their commit ahead, for the same provider
\* account or for a new User of the same email.
Racing(c, d) ==
    /\ c # d /\ AtCommit(req[c]) /\ AtCommit(req[d])
    /\ \/ req[c].provider = req[d].provider /\ req[c].puid = req[d].puid
       \/ req[c].pc = "create" /\ req[d].pc = "create" /\ req[c].email = req[d].email

\* C28: when two reconcile calls race on one provider account or on one new
\* email, the uniqueness constraints hold in every persisted state; the
\* commit that comes first succeeds and thereby makes the other collide; a
\* commit that collides persists nothing, logs nobody in and ends in the
\* generic authentication failure.
C28_RaceHasOneWinner ==
    /\ [](\A u, v \in users : u.email = v.email => u = v)
    /\ [](\A o, p \in oauths :
            o.provider = p.provider /\ o.provider_user_id = p.provider_user_id => o = p)
    /\ [][\A c \in Clients :
            AtCommit(req[c]) /\ req'[c] # req[c] =>
                IF Collides(req[c], users, oauths)
                THEN /\ users' = users /\ oauths' = oauths /\ current' = current
                     /\ req'[c].pc = "done" /\ req'[c].outcome = "error"
                     /\ ~req'[c].loggedIn /\ req'[c].writes = 0
                ELSE /\ req'[c].pc = "login" /\ req'[c].writes = 1
                     /\ oauths' # oauths
                     /\ \A d \in Clients : Racing(c, d) => Collides(req[d], users', oauths')]_vars

\* C28 witness: two calls went for a new User; one made it with its
\* binding and logged in, the other was refused at its commit, wrote nothing
\* and ended in the failure.
C28_Witness ==
    /\ req["c1"].pc = "done" /\ req["c1"].path = "create"
    /\ req["c1"].outcome = "ok" /\ req["c1"].writes = 1
    /\ req["c2"].pc = "done" /\ req["c2"].path = "create"
    /\ req["c2"].outcome = "error" /\ req["c2"].writes = 0 /\ ~req["c2"].loggedIn
    /\ req["c2"].lookups = 2
    /\ Cardinality(users) = 1 /\ Cardinality(oauths) = 1

\* C29: each User has at most one OAuth binding per provider: whatever
\* reconcile calls have run, no two OAuth rows of one provider belong to the
\* same User; and an OAuth row references one User.
C29_OneBindingPerProvider ==
    /\ \A o, p \in oauths : o.user_id = p.user_id /\ o.provider = p.provider => o = p
    /\ \A o \in oauths : Cardinality({u \in users : u.id = o.user_id}) = 1

\* C30: the sweep deactivates by the configured session lifetime: of the
\* records a sweep keeps, those created more than the configured lifetime
\* before it end inactive and the others keep their flag, so that another
\* configured lifetime gives another set of deactivated records; the sweep is
\* the same function for the scheduler and for the cleanup-sessions command.
C30_ConfiguredLifetime ==
    [][(sweptAt' = now /\ sweptAt # now) =>
          \A s \in sessions :
              ~(s.created_at < now - Retention) =>
                  \E r \in sessions' :
                      /\ r.id = s.id
                      /\ r.is_active =
                            (s.is_active /\ ~(s.created_at < now - config.PERMANENT_SESSION_LIFETIME))]_vars

\* The checks of key k let through so far that are not strictly older than
\* the period at time t.
NotOlderThanPeriod(k, t) ==
    {i \in 1..Len(allowed[k]) : allowed[k][i] >= t - PeriodTicks}

\* C31: only entries strictly older than now - period are evicted, an entry
\* whose age is exactly the period still counts: a check is let through only
\* when fewer than max_calls earlier checks of its key are at most one period
\* old, so after max_calls checks at t = 0 the check at t = period is
\* rejected.
C31_ExactAgeStillCounts ==
    [][\A k \in Keys :
          allowed'[k] # allowed[k] => Cardinality(NotOlderThanPeriod(k, mono)) < MaxCalls]_vars

\* The messages the pump of connection k has taken off its queue.
Taken(k) ==
    Cardinality({i \in 1..Len(conn[k].frames) : conn[k].frames[i].type = "message"})
        + (IF conn[k].holding # 0 THEN 1 ELSE 0)

\* Sequence q without its first n elements.
Drop(q, n) == SubSeq(q, n + 1, Len(q))

\* C32: a call of broadcast returns after one put per targeted handle whether
\* or not any pump runs: it never waits for a consumer and keeps the event
\* loop until it is over; a handle whose pump is stalled holds every message
\* broadcast to it, none dropped and none rejected.
C32_BroadcastNeverWaits ==
    /\ [](\A b \in Broadcasters :
            /\ bc[b].waitingOn = Null
            /\ bc[b].pc = "run" => running = b)
    /\ \A b \in Broadcasters : (bc[b].pc = "run") ~> (bc[b].pc = "done")
    /\ [](\A k \in Conns :
            /\ Taken(k) <= Len(enq[k])
            /\ queue[k] = Drop(enq[k], Taken(k))
            /\ \A m \in 1..Len(calls) :
                  (BroadcastOver(m) /\ RegisteredAtCall(k, m)) => Count(enq[k], m) = 1)

\* C32 witness: every broadcast has returned and all their messages wait on
\* the handle of a connection whose pump has sent nothing but the
\* acknowledgement.
C32_Witness ==
    /\ Len(calls) = MaxBacklog /\ \A m \in 1..Len(calls) : BroadcastOver(m)
    /\ conn["k1"].frames = <<AckFrame("1")>> /\ conn["k1"].holding = 0
    /\ Len(queue["k1"]) = MaxBacklog /\ queue["k1"] = enq["k1"]

\* C33: when a unit of work fails, its transaction is over and its storage
\* session is closed before the response that reports the failure leaves,
\* and nothing the unit added is stored: on the error handler's path, in the
\* except clause of an OAuth callback and in api_user_create.
C33_RolledBackBeforeReport ==
    \A q \in Requests :
        (work[q].failed /\ work[q].pc \in {"send", "done"}) =>
            /\ work[q].txn = "none" /\ work[q].pending = {}
            /\ work[q].session = "closed" /\ ~work[q].g
            /\ \A r \in Rows : <<q, r>> \notin stored
            /\ work[q].pc = "done" =>
                  work[q].atReport.txn = "none" /\ work[q].atReport.session = "closed"

\* C33 witness: a failure that reached the error handler and a failure
\* caught inside an OAuth callback have both been reported.
C33_Witness ==
    /\ work["q1"].route = "view" /\ work["q1"].failed /\ work["q1"].pc = "done"
    /\ work["q1"].status = 500
    /\ work["q2"].route = "callback" /\ work["q2"].failed /\ work["q2"].pc = "done"
    /\ work["q2"].status = 302 /\ work["q2"].atReport.rollbacks = 0

\* Connection k has been sent the frame of broadcast message m.
Received(k, m) == \E i \in 1..Len(conn[k].frames) : conn[k].frames[i] = MsgFrame(m)

\* C34: every activity event a connected client has received corresponds to
\* a persisted activity entry once the request that registered it is over.
C34_EventsArePersisted ==
    \A q \in Requests :
        (work[q].pc = "done" /\ work[q].event # 0) =>
            \A k \in Conns : Received(k, work[q].event) => <<q, "activity">> \in stored

\* A check at time t on a window w would be rejected.
RejectedAt(w, t) == Rejects(Evict(w, t))

\* C35: a rejected check records nothing. After it the sequence of its key
\* holds exactly the entries that survived the eviction, the times at which
\* the key is allowed again are what they were, and no check, rejected or
\* let through, changes the sequence of another key.
C35_RejectionRecordsNothing ==
    [][nchecks' # nchecks =>
          \E k \in Keys :
              /\ \A j \in Keys \ {k} : hits'[j] = hits[j] /\ allowed'[j] = allowed[j]
              /\ allowed'[k] = allowed[k] =>
                    /\ hits'[k] = Evict(hits[k], mono)
                    /\ Len(hits'[k]) = MaxCalls
                    /\ \A t \in mono..(mono + PeriodTicks) :
                          RejectedAt(hits'[k], t) = RejectedAt(hits[k], t)
              /\ allowed'[k] # allowed[k] =>
                    hits'[k] = Append(Evict(hits[k], mono), mono)]_vars

\* C35 witness: the second address has a check on record; the first one was
\* allowed ten checks and then turned away, last a second later, and its
\* sequence is still the ten checks it was allowed.
C35_Witness ==
    /\ hits["security:ip1"] = [i \in 1..MaxCalls |-> 0]
    /\ hits["security:ip2"] = <<0>>
    /\ nchecks = MaxCalls + 2
    /\ answer["r1"].kind = "reject" /\ answer["r1"].now = Seconds(1)

\* The time the answer of caller c tells its client to come back at.
ComeBackAt(c) == answer[c].now + Seconds(answer[c].retry_after)

\* No check on the key of caller c's answer was let through after it.
NoneAllowedSince(c) ==
    \A i \in 1..Len(allowed[answer[c].key]) : allowed[answer[c].key][i] <= answer[c].now

\* C36: when a check was rejected at t with Retry-After r and no check on
\* its key was let through since, a check on that key at t + r is let
\* through.
C36_RetryAfterIsEnough ==
    [][\A c \in RateCallers :
          (/\ answer[c].kind = "reject"
           /\ mono = ComeBackAt(c)
           /\ NoneAllowedSince(c)
           /\ nchecks' # nchecks)
             => /\ allowed'[answer[c].key] = Append(allowed[answer[c].key], mono)
                /\ \E d \in RateCallers : answer'[d] = Allow(answer[c].key, mono)]_vars

\* C36 witness: the ten checks at t = 0 were followed by one at t = 0.5 that
\* was turned away with Retry-After 60, and by one at t = 60.5 that was let
\* through.
C36_Witness ==
    /\ allowed["security:ip1"] = [i \in 1..MaxCalls |-> 0] \o <<1 + Seconds(60)>>
    /\ answer["r1"].kind = "reject" /\ answer["r1"].now = 1 /\ answer["r1"].retry_after = 60
    /\ answer["r2"] = Allow("security:ip1", 1 + Seconds(60))

\* C37: a refresh by token reuse sets last_active and never created_at, and
\* the sweep decides by created_at alone: a record created more than the
\* lifetime ago is inactive after the next sweep, and one created more than
\* 30 days ago is gone, whatever its active flag and its last_active.
C37_SweepByCreationTime ==
    [][/\ \A s \in sessions, r \in sessions' :
             r.id = s.id =>
                 /\ r.created_at = s.created_at
                 /\ r.last_active # s.last_active =>
                       \E h \in Handlers : /\ sreq[h].pc = "commit" /\ sreq[h].p.kind = "update"
                                           /\ r.last_active = sreq[h].p.last_active
       /\ (sweptAt' = now /\ sweptAt # now) =>
             \A s \in sessions :
                 /\ s.created_at < now - SessionLifetime =>
                       \A r \in sessions' : r.id = s.id => ~r.is_active
                 /\ s.created_at < now - Retention =>
                       \A r \in sessions' : r.id # s.id]_vars

\* C37 witness: two records were refreshed at the current time; the sweep
\* that followed deleted the one created more than 30 days ago, which the
\* refresh had just reactivated, and left the other one, created more than
\* the lifetime ago, inactive with last_active at the current time.
C37_Witness ==
    /\ sweptAt = now
    /\ sreq["h1"].pc = "done" /\ sreq["h1"].p.kind = "update"
    /\ sreq["h1"].p.last_active = now /\ ~sreq["h1"].p.loaded.is_active
    /\ sreq["h1"].p.loaded.created_at < now - Retention
    /\ \A s \in sessions : s.id # sreq["h1"].p.loaded.id
    /\ \E s \in sessions : /\ ~s.is_active /\ s.last_active = now
                           /\ s.created_at < now - SessionLifetime

\* The active records of user u in S.
ActiveOf(S, u) == {s \in S : s.user_id = u /\ s.is_active}

\* C38: with DISABLE_MULTIPLE_SESSIONS, when user_authenticated_handler has
\* run to its end the authenticating user has exactly one active record, the
\* one of the current session token, whatever the token is (the handler
\* passes "" when the session has neither sid nor _id).
C38_OneActiveSessionAfterLogin ==
    [][\A h \in Handlers :
          (disableMulti /\ sreq[h].pc = "others" /\ sreq'[h].pc = "done") =>
              /\ Cardinality(ActiveOf(sessions', sreq[h].p.user_id)) = 1
              /\ ActiveOf(sessions', sreq[h].p.user_id)
                    = SelectByToken(sessions', sreq[h].p.session_token)]_vars

\* C39: a callback goes on to the token exchange only when its state
\* parameter equals a state value that a login initiation stored in the same
\* browser session, and that value is consumed: a callback in a session that
\* holds no stored state never reaches the token exchange.
C39_StateGuardsExchange ==
    [][\A c \in Clients :
          (req[c].pc # "exchange" /\ req'[c].pc = "exchange") =>
              /\ oauth_state[c] # NoState
              /\ req'[c].state = oauth_state[c]
              /\ oauth_state'[c] = NoState]_vars

\* The accepted connections whose endpoint has not yet run its final
\* cleanup: registered, and acknowledging, serving or tearing down.
OpenConns == {k \in Conns : conn[k].pc \in {"ack", "wait", "gather"}}

====
